---------------------------- MODULE Spec2Model ----------------------------
(***************************************************************************)
(* claude-code-kit CLI: the composition engine of `claude-code-cli init`.  *)
(*                                                                         *)
(*   PluginManager  (src/cli/src/core/detector.ts 1382-1729)               *)
(*   Installer      (src/cli/src/core/detector.ts  933-1369)               *)
(*   Merger         (src/cli/src/core/merger.ts)                           *)
(*   TemplateEngine (src/cli/src/core/template-engine.ts)                  *)
(*   initCommand    (src/unnamed/part_003)                                 *)
(*   PluginValidator (src/cli/src/core/plugin-validator.ts)                *)
(*                                                                         *)
(* Each component has its own specification over the shared variables:     *)
(*   SpecResolver   PluginManager.getInstallationOrder on every plugin     *)
(*                  directory and request list within the bounds           *)
(*   SpecInstaller  any sequence of Installer calls on a project tree      *)
(*   SpecMerger     the merge pipeline of Step 11 on every fragment list   *)
(*   SpecInit       initCommand, step by step                              *)
(*   SpecSorter     sortSkillsByPriority on every skills object            *)
(*   SpecSettings   deepMerge, mergeSettings and mergeHooks on JSON trees  *)
(*   SpecTemplate   replaceVariables, then extractVariables; createContext *)
(*                  and mergeContexts                                      *)
(*   SpecQueries    the TemplateEngine functions called one after another  *)
(*   SpecValidator  validateManifest on every manifest document            *)
(*   SpecGitignore  updateGitignore on every .gitignore                    *)
(***************************************************************************)
EXTENDS Integers, Sequences, FiniteSets, TLC

VARIABLES
    manifests,      \* cliRoot/plugins: plugin name -> what <name>/plugin.json holds
    fragmentFiles,  \* plugin name -> what its skill-rules fragment file holds
    pluginNames,    \* the request list handed to getInstallationOrder
    resolved,       \* the outcome of getInstallationOrder
    fs,             \* the destination tree: path -> absent, directory or file
    runContext,     \* the TemplateContext of the run
    fragments,      \* the fragment list handed to mergeSkillRulesFragments
    mergedSkillRules,   \* the skills object the merge pipeline has produced so far
    mergeWarnings,  \* the warnings of validateMergedSkillRules
    pc,             \* the position of the pipeline or of initCommand
    cliOptions,     \* the options of initCommand
    cursor,         \* the index of the Step 10 loop in the install order
    installedPlugins,   \* the installedPlugins list of initCommand
    startTree,      \* the destination tree initCommand started on
    failure,        \* the error initCommand ended with ("" while none)
    arguments,      \* the arguments of a call of a library function
    returned,       \* what the call returned (<<>> while it has not)
    lastIndex       \* TemplateEngine.VARIABLE_PATTERN.lastIndex

pluginDirVars == <<manifests, fragmentFiles>>

resolverVars == <<pluginNames, resolved>>

mergerVars == <<fragments, mergedSkillRules, mergeWarnings>>

runVars == <<pc, cliOptions, cursor, installedPlugins, startTree, failure>>

callVars == <<arguments, returned, lastIndex>>

vars == <<pluginDirVars, resolverVars, fs, runContext, mergerVars, runVars, callVars>>

(***************************************************************************)
(* Bounds                                                                  *)
(***************************************************************************)
MaxDeps == 2        \* longest dependencies.plugins list of a manifest
MaxRequest == 2     \* longest request list

PluginNames == {"a", "b", "c"}

Null == "<null>"

Range(s) == {s[i] : i \in 1..Len(s)}

NoDuplicates(s) == \A i, j \in 1..Len(s) : s[i] = s[j] => i = j

SeqsUpTo(S, n) == UNION {[1..k -> S] : k \in 0..n}

(***************************************************************************)
(* PluginManager                                                           *)
(***************************************************************************)

\* A plugin.json as the resolver sees it.  status: "absent" (no manifest file),
\* "invalid" (PluginValidator.validateManifest rejects it), "valid".
\* dependencies.plugins has uniqueItems in pluginManifestSchema.
DependencyLists == {s \in SeqsUpTo(PluginNames, MaxDeps) : NoDuplicates(s)}

AbsentManifest == [status |-> "absent", plugins |-> <<>>]

InvalidManifest == [status |-> "invalid", plugins |-> <<>>]

ValidManifests == {[status |-> "valid", plugins |-> d] : d \in DependencyLists}

\* The value of a call: it returns a value or throws an error.
NoError == [kind |-> "none", plugin |-> Null, circular |-> Null]

Return(v) == [threw |-> FALSE, value |-> v, error |-> NoError]

Throw(e) == [threw |-> TRUE, value |-> Null, error |-> e]

\* loadManifest: throws when validation fails.
loadManifest(name) ==
    IF manifests[name].status = "invalid"
    THEN Throw([kind |-> "InvalidManifest", plugin |-> name, circular |-> Null])
    ELSE Return(manifests[name])

\* getPlugin: null when <name>/plugin.json does not exist (null is modelled
\* by AbsentManifest).
getPlugin(name) ==
    IF manifests[name].status = "absent" THEN Return(AbsentManifest)
    ELSE loadManifest(name)

\* A mutated getPluginDependencies: an unknown plugin is an error.
getPluginDependenciesRejectsUnknown(pluginName) ==
    LET plugin == getPlugin(pluginName)
    IN  IF plugin.threw THEN plugin
        ELSE IF plugin.value.status = "absent"
             THEN Throw([kind |-> "MissingPlugin", plugin |-> pluginName, circular |-> Null])
        ELSE Return(plugin.value.plugins)

\* getPluginDependencies: [] for an unknown plugin.
getPluginDependencies(pluginName) ==
    LET plugin == getPlugin(pluginName)
    IN  IF plugin.threw THEN plugin
        ELSE IF plugin.value.status = "absent" THEN Return(<<>>)
        ELSE Return(plugin.value.plugins)

\* What a plugin's skill-rules fragment file holds: nothing ("none": the
\* manifest provides no fragment, or the file is missing), a fragment that
\* PluginValidator.validateSkillRulesFragment rejects, or a valid one.
NoFragmentFile == [status |-> "none", skills |-> <<>>]

InvalidFragmentFile == [status |-> "invalid", skills |-> <<>>]

FragmentFile(skills) == [status |-> "valid", skills |-> skills]

\* loadSkillRulesFragment: null (NoFragmentFile) for an unknown plugin or a
\* plugin without a fragment; throws when validation fails.
loadSkillRulesFragment(pluginName) ==
    LET plugin == getPlugin(pluginName)
    IN  IF plugin.threw THEN plugin
        ELSE IF plugin.value.status = "absent" THEN Return(NoFragmentFile)
        ELSE IF fragmentFiles[pluginName].status = "invalid"
             THEN Throw([kind |-> "InvalidFragment", plugin |-> pluginName,
                         circular |-> Null])
        ELSE Return(fragmentFiles[pluginName])

RECURSIVE checkCircularDependencies(_, _)
RECURSIVE checkCircularLoop(_, _, _)

\* The for-loop of checkCircularDependencies over dependencies[i..]: the first
\* non-null answer (or error) ends it.
checkCircularLoop(dependencies, i, visited) ==
    IF i > Len(dependencies) THEN Return(Null)
    ELSE LET circular == checkCircularDependencies(dependencies[i], visited)
         IN  IF circular.threw \/ circular.value # Null THEN circular
             ELSE checkCircularLoop(dependencies, i + 1, visited)

\* visited is the set of names on the current path: a name is added on entry
\* and deleted again before a null return.
checkCircularDependencies(pluginName, visited) ==
    IF pluginName \in visited THEN Return(pluginName)
    ELSE LET dependencies == getPluginDependencies(pluginName)
         IN  IF dependencies.threw THEN dependencies
             ELSE checkCircularLoop(dependencies.value, 1, visited \cup {pluginName})

\* The closure state of getInstallationOrder: order, visited, and the error
\* thrown so far (Null while none).
NewTraversal == [order |-> <<>>, visited |-> {}, error |-> NoError]

CircularError(name, circular) ==
    [kind |-> "CircularDependency", plugin |-> name, circular |-> circular]

RECURSIVE visit(_, _)
RECURSIVE visitAll(_, _, _)

\* A mutated visit: the plugin is pushed before its dependencies are visited.
visitPushFirst(name, st) ==
    IF st.error # NoError \/ name \in st.visited THEN st
    ELSE LET circular == checkCircularDependencies(name, {})
             dependencies == getPluginDependencies(name)
         IN  IF circular.threw THEN [st EXCEPT !.error = circular.error]
             ELSE IF circular.value # Null
                  THEN [st EXCEPT !.error = CircularError(name, circular.value)]
             ELSE IF dependencies.threw
                  THEN [st EXCEPT !.error = dependencies.error]
             ELSE visitAll(dependencies.value, 1,
                           [st EXCEPT !.visited = @ \cup {name},
                                      !.order = Append(@, name)])

\* A mutated visit: no circular-dependency check, the visited set alone stops
\* the recursion.
visitUnchecked(name, st) ==
    IF st.error # NoError \/ name \in st.visited THEN st
    ELSE LET dependencies == getPluginDependencies(name)
         IN  IF dependencies.threw
             THEN [st EXCEPT !.error = dependencies.error]
             ELSE LET after == visitAll(dependencies.value, 1,
                                        [st EXCEPT !.visited = @ \cup {name}])
                  IN  IF after.error # NoError THEN after
                      ELSE [after EXCEPT !.order = Append(@, name)]

\* A mutated visit: a name already visited is visited again.
visitRevisits(name, st) ==
    IF st.error # NoError THEN st
    ELSE LET circular == checkCircularDependencies(name, {})
             dependencies == getPluginDependencies(name)
         IN  IF circular.threw THEN [st EXCEPT !.error = circular.error]
             ELSE IF circular.value # Null
                  THEN [st EXCEPT !.error = CircularError(name, circular.value)]
             ELSE IF dependencies.threw
                  THEN [st EXCEPT !.error = dependencies.error]
             ELSE LET after == visitAll(dependencies.value, 1,
                                        [st EXCEPT !.visited = @ \cup {name}])
                  IN  IF after.error # NoError THEN after
                      ELSE [after EXCEPT !.order = Append(@, name)]

\* A mutated visit: the dependencies of a plugin are not visited.
visitSkipsDependencies(name, st) ==
    IF st.error # NoError \/ name \in st.visited THEN st
    ELSE LET circular == checkCircularDependencies(name, {})
         IN  IF circular.threw THEN [st EXCEPT !.error = circular.error]
             ELSE IF circular.value # Null
                  THEN [st EXCEPT !.error = CircularError(name, circular.value)]
             ELSE [st EXCEPT !.visited = @ \cup {name},
                             !.order = Append(@, name)]

\* The closure visit of getInstallationOrder.
visit(name, st) ==
    IF st.error # NoError \/ name \in st.visited THEN st
    ELSE LET circular == checkCircularDependencies(name, {})
             dependencies == getPluginDependencies(name)
         IN  IF circular.threw THEN [st EXCEPT !.error = circular.error]
             ELSE IF circular.value # Null
                  THEN [st EXCEPT !.error = CircularError(name, circular.value)]
             ELSE IF dependencies.threw
                  THEN [st EXCEPT !.error = dependencies.error]
             ELSE LET after == visitAll(dependencies.value, 1,
                                        [st EXCEPT !.visited = @ \cup {name}])
                  IN  IF after.error # NoError THEN after
                      ELSE [after EXCEPT !.order = Append(@, name)]

\* for (const n of names) await visit(n), from index i on.
visitAll(names, i, st) ==
    IF i > Len(names) \/ st.error # NoError THEN st
    ELSE visitAll(names, i + 1, visit(names[i], st))

getInstallationOrder(names) ==
    LET st == visitAll(names, 1, NewTraversal)
    IN  IF st.error # NoError THEN Throw(st.error) ELSE Return(st.order)

(***************************************************************************)
(* TemplateEngine.  A text is a sequence of characters (one-character      *)
(* strings); a variable name is the sequence of its characters.            *)
(***************************************************************************)
UpperChars == {"A", "B"}

DigitChars == {"1"}

IsNameStart(c) == c \in UpperChars \cup {"_"}

IsNameChar(c) == c \in UpperChars \cup DigitChars \cup {"_"}

RECURSIVE NameEnd(_, _)
\* The index after the longest run of [A-Z0-9_] starting at j.
NameEnd(text, j) ==
    IF j <= Len(text) /\ IsNameChar(text[j]) THEN NameEnd(text, j + 1) ELSE j

\* VARIABLE_PATTERN /\{\{([A-Z_][A-Z0-9_]*)\}\}/ anchored at index i: the
\* length of the whole match, 0 when there is none.
MatchAt(text, i) ==
    IF /\ i + 4 <= Len(text)
       /\ text[i] = "{" /\ text[i + 1] = "{"
       /\ IsNameStart(text[i + 2])
    THEN LET e == NameEnd(text, i + 3)
         IN  IF e + 1 <= Len(text) /\ text[e] = "}" /\ text[e + 1] = "}"
             THEN e + 2 - i
             ELSE 0
    ELSE 0

\* String(value) of a context value: a string is itself, a number or boolean
\* is its literal text, any object is "[object Object]".
String(value) ==
    IF value.type = "object"
    THEN <<"[", "o", "b", "j", "e", "c", "t", " ", "O", "b", "j", "e", "c", "t", "]">>
    ELSE value.chars

Str(chars) == [type |-> "string", chars |-> chars]

RECURSIVE replaceFrom(_, _, _)
\* String.prototype.replace with the global pattern: matches are found left
\* to right and do not overlap; the replacement text is not scanned again.
replaceFrom(text, i, context) ==
    IF i > Len(text) THEN <<>>
    ELSE LET n == MatchAt(text, i)
         IN  IF n = 0 THEN <<text[i]>> \o replaceFrom(text, i + 1, context)
             ELSE LET varName == SubSeq(text, i + 2, i + n - 3)
                      match == SubSeq(text, i, i + n - 1)
                  IN  (IF varName \in DOMAIN context
                       THEN String(context[varName])
                       ELSE match) \o replaceFrom(text, i + n, context)

\* text.replace with the pattern lacking its g flag: only the first match is
\* replaced.
replaceVariablesFirstOnly(text, context) ==
    LET starts == {i \in 1..Len(text) : MatchAt(text, i) > 0}
    IN  IF starts = {} THEN text
        ELSE LET i == CHOOSE j \in starts : \A k \in starts : j <= k
                 n == MatchAt(text, i)
             IN  SubSeq(text, 1, i - 1)
                   \o replaceFrom(SubSeq(text, i, i + n - 1), 1, context)
                   \o SubSeq(text, i + n, Len(text))

replaceVariables(text, context) == replaceFrom(text, 1, context)

RECURSIVE matchAll(_, _)
\* The matches of a copy of VARIABLE_PATTERN: the captured names, left to
\* right, from index i on.
matchAll(text, i) ==
    IF i > Len(text) THEN <<>>
    ELSE LET n == MatchAt(text, i)
         IN  IF n = 0 THEN matchAll(text, i + 1)
             ELSE <<SubSeq(text, i + 2, i + n - 3)>> \o matchAll(text, i + n)

RECURSIVE arrayFromNames(_)
\* Array.from(variables) of the Set the names were added to.
arrayFromNames(names) ==
    IF names = <<>> THEN <<>>
    ELSE LET rest == arrayFromNames(SubSeq(names, 1, Len(names) - 1))
         IN  IF names[Len(names)] \in Range(rest) THEN rest
             ELSE Append(rest, names[Len(names)])

\* text.matchAll(VARIABLE_PATTERN) matches with a copy of the pattern that
\* starts at the pattern's lastIndex; the pattern itself is left as it is.
extractVariables(text) == arrayFromNames(matchAll(text, lastIndex + 1))

\* VARIABLE_PATTERN.test(text) of the global pattern: the search starts at
\* lastIndex; a match moves lastIndex to its end, a failure sets it to 0.
hasVariables(text) ==
    LET starts == {i \in (lastIndex + 1)..Len(text) : MatchAt(text, i) > 0}
    IN  IF starts = {} THEN [value |-> FALSE, lastIndex |-> 0]
        ELSE LET i == CHOOSE j \in starts : \A k \in starts : j <= k
             IN  [value |-> TRUE, lastIndex |-> i - 1 + MatchAt(text, i)]

RECURSIVE filterMissing(_, _)
filterMissing(required, context) ==
    IF required = <<>> THEN <<>>
    ELSE (IF Head(required) \in DOMAIN context THEN <<>> ELSE <<Head(required)>>)
           \o filterMissing(Tail(required), context)

validateContext(text, context) ==
    LET missing == filterMissing(extractVariables(text), context)
    IN  [valid |-> missing = <<>>, missing |-> missing]

\* key.toUpperCase() on the characters a key is written with.
toUpperCase(key) ==
    [i \in 1..Len(key) |-> IF key[i] = "a" THEN "A"
                           ELSE IF key[i] = "b" THEN "B"
                           ELSE key[i]]

\* key.toUpperCase().replace(/[^A-Z0-9]/g, '_')
normalizedKey(key) ==
    LET upper == toUpperCase(key)
    IN  [i \in 1..Len(key) |-> IF upper[i] \in UpperChars \cup DigitChars
                               THEN upper[i]
                               ELSE "_"]

RECURSIVE createContext(_)
\* pairs is Object.entries(pairs): the entries in property order; a later
\* entry with the same normalized key takes the place of an earlier one.
createContext(pairs) ==
    IF pairs = <<>> THEN <<>>
    ELSE LET last == pairs[Len(pairs)]
         IN  (normalizedKey(last.key) :> last.value)
               @@ createContext(SubSeq(pairs, 1, Len(pairs) - 1))

RECURSIVE mergeContexts(_)
\* Object.assign({}, ...contexts): the own properties of each context are
\* copied under their own keys, a later context over an earlier one.
mergeContexts(contexts) ==
    IF contexts = <<>> THEN <<>>
    ELSE contexts[Len(contexts)]
           @@ mergeContexts(SubSeq(contexts, 1, Len(contexts) - 1))

(***************************************************************************)
(* Files.  A file holds bytes; fs.readFile(path, 'utf-8') decodes them and *)
(* fs.writeFile(path, text, 'utf-8') encodes the text.  A byte is an ASCII *)
(* character or one of the named non-ASCII bytes.                          *)
(***************************************************************************)
ReplacementChar == "U+FFFD"

ReplacementBytes == <<"0xEF", "0xBF", "0xBD">>

NonAsciiBytes == {"0xFF", "0xEF", "0xBF", "0xBD"}

RECURSIVE Utf8Decode(_)
\* A well-formed sequence decodes to its character; an ill-formed one to
\* U+FFFD (0xFF never occurs in UTF-8; 0xEF 0xBF 0xBD encodes U+FFFD).
Utf8Decode(bytes) ==
    IF bytes = <<>> THEN <<>>
    ELSE IF Len(bytes) >= 3 /\ SubSeq(bytes, 1, 3) = ReplacementBytes
         THEN <<ReplacementChar>> \o Utf8Decode(SubSeq(bytes, 4, Len(bytes)))
    ELSE IF Len(bytes) >= 2 /\ SubSeq(bytes, 1, 2) = <<"0xEF", "0xBF">>
         THEN <<ReplacementChar>> \o Utf8Decode(SubSeq(bytes, 3, Len(bytes)))
    ELSE IF Head(bytes) \in NonAsciiBytes
         THEN <<ReplacementChar>> \o Utf8Decode(Tail(bytes))
    ELSE <<Head(bytes)>> \o Utf8Decode(Tail(bytes))

RECURSIVE Utf8Encode(_)
Utf8Encode(chars) ==
    IF chars = <<>> THEN <<>>
    ELSE (IF Head(chars) = ReplacementChar THEN ReplacementBytes ELSE <<Head(chars)>>)
         \o Utf8Encode(Tail(chars))

\* A path is the sequence of its segments, relative to the project root (for
\* the destination tree) or to cliRoot (for the source tree).
join(dir, rel) == dir \o rel

dirname(path) == SubSeq(path, 1, Len(path) - 1)

basename(path) == path[Len(path)]

IsPrefix(p, q) == Len(p) <= Len(q) /\ SubSeq(q, 1, Len(p)) = p

\* path.extname of the file names of the model.
extname(path) ==
    CASE basename(path) \in {"SKILL.md", "reviewer.md", "build.md"} -> ".md"
      [] basename(path) \in {"skill-activation-prompt.sh", "post-tool-use-tracker.sh"} -> ".sh"
      [] basename(path) = "skill-activation-prompt.ts" -> ".ts"
      [] basename(path) \in {"package.json", "settings.json", "skill-rules.json",
                             ".claude-code-cli.json"} -> ".json"
      [] basename(path) = "logo.png" -> ".png"
      [] OTHER -> ""

textExtensions == {".md", ".ts", ".js", ".json", ".sh", ".bash", ".txt", ".yml", ".yaml"}

(***************************************************************************)
(* The source tree under cliRoot: core/ and plugins/<name>/.               *)
(***************************************************************************)
SourceFile(path, content) == [path |-> path, content |-> content]

\* The files below cliRoot, apart from each plugin's plugin.json (manifests).
cliRoot ==
    { SourceFile(<<"core", "hooks", "skill-activation-prompt.sh">>,
                 <<"{", "{", "A", "}", "}", "x">>),
      SourceFile(<<"core", "hooks", "skill-activation-prompt.ts">>, <<"x">>),
      SourceFile(<<"core", "hooks", "post-tool-use-tracker.sh">>, <<"x">>),
      SourceFile(<<"core", "hooks", "package.json">>, <<"{", "}">>),
      SourceFile(<<"core", "skills", "skill-developer", "SKILL.md">>,
                 <<"{", "{", "B", "1", "}", "}">>),
      SourceFile(<<"plugins", "a", "skills", "a", "SKILL.md">>,
                 <<"x", "{", "{", "A", "}", "}">>),
      SourceFile(<<"plugins", "a", "skills", "skill-rules.fragment.json">>, <<"{", "}">>),
      SourceFile(<<"plugins", "a", "agents", "logo.png">>,
                 <<"0xFF", "{", "{", "A", "}", "}">>),
      SourceFile(<<"plugins", "b", "commands", "build.md">>, <<"0xFF", "x">>) }

RECURSIVE SetToSeq(_)
SetToSeq(S) ==
    IF S = {} THEN <<>>
    ELSE LET x == CHOOSE y \in S : TRUE IN <<x>> \o SetToSeq(S \ {x})

\* fs.pathExists on a directory of the source tree.
sourceDirExists(dir) ==
    \/ \E f \in cliRoot : IsPrefix(dir, f.path) /\ Len(dir) < Len(f.path)
    \/ Len(dir) = 2 /\ dir[1] = "plugins" /\ manifests[dir[2]].status # "absent"

\* glob('**/*', {cwd: dir, nodir: true, dot: true}): the files below dir, as
\* paths relative to dir.
globFiles(dir) ==
    SetToSeq({SubSeq(f.path, Len(dir) + 1, Len(f.path)) :
                f \in {g \in cliRoot : IsPrefix(dir, g.path) /\ Len(dir) < Len(g.path)}})

\* The entries of dir that are directories (fs.readdir + stat.isDirectory).
subDirectories(dir) ==
    SetToSeq({f.path[Len(dir) + 1] :
                f \in {g \in cliRoot : IsPrefix(dir, g.path) /\ Len(dir) + 1 < Len(g.path)}})

sourceContent(path) == (CHOOSE f \in cliRoot : f.path = path).content

(***************************************************************************)
(* The destination tree under projectRoot.                                 *)
(***************************************************************************)
claudeDir == <<".claude">>

settingsPath == <<".claude", "settings.json">>

skillRulesPath == <<".claude", "skills", "skill-rules.json">>

configPath == <<".claude-code-cli.json">>

gitignorePath == <<".gitignore">>

hookNodeModules == <<".claude", "hooks", "node_modules">>

hooksPackageJson == <<".claude", "hooks", "package.json">>

Prefixes(p) == {SubSeq(p, 1, k) : k \in 1..Len(p)}

\* Where a file of the source tree is copied to by installCore / installPlugin.
destinationOf(path) ==
    IF path[1] = "core" THEN join(claudeDir, Tail(path))
    ELSE join(claudeDir, SubSeq(path, 3, Len(path)))

DestinationPaths ==
    UNION {Prefixes(q) :
             q \in {destinationOf(f.path) : f \in cliRoot}
                   \cup {settingsPath, skillRulesPath, configPath, gitignorePath,
                         hookNodeModules,
                         <<".claude", "hooks", "post-tool-use-tracker.sh">>,
                         <<".claude", "hooks", "skill-activation-prompt.ts">>,
                         <<".claude", "agents">>, <<".claude", "commands">>}}

Absent == [kind |-> "absent", content |-> <<>>, mode |-> 0]

FileMode == 420         \* 0o644, the mode fs.writeFile creates a file with

ExecutableMode == 493   \* 0o755

Directory == [kind |-> "dir", content |-> <<>>, mode |-> ExecutableMode]

File(content, mode) == [kind |-> "file", content |-> content, mode |-> mode]

pathExists(f, path) == path = <<>> \/ (path \in DOMAIN f /\ f[path].kind # "absent")

\* fs.ensureDir: the directory and its missing ancestors are created.
ensureDir(f, dir) ==
    [p \in DOMAIN f |-> IF p \in Prefixes(dir) /\ f[p].kind = "absent" THEN Directory
                        ELSE f[p]]

\* fs.ensureDir rejects when the directory or one of its ancestors exists as a
\* file.
ensureDirFails(f, dir) == \E p \in Prefixes(dir) : f[p].kind = "file"

\* fs.writeFile(path, text, 'utf-8'): an existing file keeps its mode.
writeFile(f, path, text) ==
    [f EXCEPT ![path] = File(Utf8Encode(text),
                             IF f[path].kind = "file" THEN f[path].mode ELSE FileMode)]

\* (stats.mode & 0o111) !== 0
isExecutable(mode) ==
    \/ mode % 2 = 1
    \/ (mode \div 8) % 2 = 1
    \/ (mode \div 64) % 2 = 1

(***************************************************************************)
(* Installer.  Every method is a function of the destination tree: it      *)
(* yields the tree afterwards and whether it threw.                        *)
(***************************************************************************)
Done(f) == [fs |-> f, threw |-> FALSE, error |-> ""]

Failed(f, message) == [fs |-> f, threw |-> TRUE, error |-> message]

\* A mutated copyFile: the existence check ignores the force flag's absence.
copyFileAlwaysOverwrites(f, src, dest, context, options) ==
    IF options.dryRun THEN Done(f)
    ELSE LET content == Utf8Decode(sourceContent(src))
             finalContent == IF extname(src) \in textExtensions
                             THEN replaceVariables(content, context)
                             ELSE content
         IN  IF ensureDirFails(f, dirname(dest)) THEN Failed(f, "EEXIST")
             ELSE IF f[dest].kind = "dir"
             THEN Failed(ensureDir(f, dirname(dest)), "EISDIR")
             ELSE Done(writeFile(ensureDir(f, dirname(dest)), dest, finalContent))

\* A mutated copyFile: the dry-run check is missing.
copyFileIgnoresDryRun(f, src, dest, context, options) ==
    IF pathExists(f, dest) /\ ~options.force THEN Done(f)
    ELSE LET content == Utf8Decode(sourceContent(src))
             finalContent == IF extname(src) \in textExtensions
                             THEN replaceVariables(content, context)
                             ELSE content
         IN  IF ensureDirFails(f, dirname(dest)) THEN Failed(f, "EEXIST")
             ELSE IF f[dest].kind = "dir"
             THEN Failed(ensureDir(f, dirname(dest)), "EISDIR")
             ELSE Done(writeFile(ensureDir(f, dirname(dest)), dest, finalContent))

copyFile(f, src, dest, context, options) ==
    IF pathExists(f, dest) /\ ~options.force THEN Done(f)
    ELSE IF options.dryRun THEN Done(f)
    ELSE LET content == Utf8Decode(sourceContent(src))
             finalContent == IF extname(src) \in textExtensions
                             THEN replaceVariables(content, context)
                             ELSE content
         IN  IF ensureDirFails(f, dirname(dest)) THEN Failed(f, "EEXIST")
             ELSE IF f[dest].kind = "dir"
             THEN Failed(ensureDir(f, dirname(dest)), "EISDIR")
             ELSE Done(writeFile(ensureDir(f, dirname(dest)), dest, finalContent))

RECURSIVE copyFiles(_, _, _, _, _, _, _)
\* The for-loop of copyDirectory over files[i..].
copyFiles(f, src, dest, files, i, context, options) ==
    IF i > Len(files) THEN Done(f)
    ELSE LET copied == copyFile(f, join(src, files[i]), join(dest, files[i]),
                                context, options)
         IN  IF copied.threw THEN copied
             ELSE copyFiles(copied.fs, src, dest, files, i + 1, context, options)

copyDirectory(f, src, dest, context, options) ==
    IF ~sourceDirExists(src) THEN Done(f)
    ELSE copyFiles(f, src, dest, globFiles(src), 1, context, options)

createClaudeDirectory(f, options) ==
    IF pathExists(f, claudeDir) /\ ~options.force
    THEN Failed(f, ".claude directory already exists. Use --force to overwrite.")
    ELSE IF ~options.dryRun /\ ensureDirFails(f, join(claudeDir, <<"skills">>))
    THEN Failed(f, "EEXIST")
    ELSE IF ~options.dryRun
         THEN Done(ensureDir(ensureDir(ensureDir(ensureDir(f,
                  join(claudeDir, <<"skills">>)),
                  join(claudeDir, <<"hooks">>)),
                  join(claudeDir, <<"agents">>)),
                  join(claudeDir, <<"commands">>)))
         ELSE Done(f)

\* glob('*.sh', {cwd: .claude/hooks}): the hook scripts of the destination.
hookScripts(f) ==
    {p \in DOMAIN f : /\ dirname(p) = join(claudeDir, <<"hooks">>)
                      /\ f[p].kind = "file"
                      /\ extname(p) = ".sh"}

installCore(f, context, options) ==
    LET coreDir == <<"core">>
        hooks == copyDirectory(f, join(coreDir, <<"hooks">>), join(claudeDir, <<"hooks">>),
                               context, options)
        f1 == hooks.fs
        f2 == IF ~options.dryRun
              THEN [p \in DOMAIN f1 |-> IF p \in hookScripts(f1)
                                        THEN [f1[p] EXCEPT !.mode = ExecutableMode]
                                        ELSE f1[p]]
              ELSE f1
    IN  IF hooks.threw THEN hooks
        ELSE copyDirectory(f2, join(coreDir, <<"skills", "skill-developer">>),
                           join(claudeDir, <<"skills", "skill-developer">>),
                           context, options)

RECURSIVE copySkills(_, _, _, _, _, _)
\* The for-loop of installPlugin over the entries of <plugin>/skills.
copySkills(f, skillsDir, skillDirs, i, context, options) ==
    IF i > Len(skillDirs) THEN Done(f)
    ELSE LET copied ==
                 IF skillDirs[i] # "skill-rules.fragment.json"
                 THEN copyDirectory(f, join(skillsDir, <<skillDirs[i]>>),
                                    join(claudeDir, <<"skills", skillDirs[i]>>),
                                    context, options)
                 ELSE Done(f)
         IN  IF copied.threw THEN copied
             ELSE copySkills(copied.fs, skillsDir, skillDirs, i + 1, context, options)

installPlugin(f, pluginName, context, options) ==
    LET pluginDir == <<"plugins", pluginName>>
        skillsDir == join(pluginDir, <<"skills">>)
        agentsDir == join(pluginDir, <<"agents">>)
        commandsDir == join(pluginDir, <<"commands">>)
        skills == IF sourceDirExists(skillsDir)
                  THEN copySkills(f, skillsDir, subDirectories(skillsDir), 1,
                                  context, options)
                  ELSE Done(f)
        agents == IF sourceDirExists(agentsDir)
                  THEN copyDirectory(skills.fs, agentsDir, join(claudeDir, <<"agents">>),
                                     context, options)
                  ELSE skills
        commands == IF sourceDirExists(commandsDir)
                    THEN copyDirectory(agents.fs, commandsDir,
                                       join(claudeDir, <<"commands">>), context, options)
                    ELSE agents
    IN  IF ~sourceDirExists(pluginDir) THEN Failed(f, "Plugin not found")
        ELSE IF skills.threw THEN skills
        ELSE IF agents.threw THEN agents
        ELSE commands

\* The JSON text of an object, as one token of a file's content.
Json(object) == [json |-> object]

\* fs.writeJson(path, object, {spaces: 2}): JSON.stringify then writeFile; the
\* parent directory is not created.
writeJson(f, path, object) ==
    IF ~pathExists(f, dirname(path)) THEN Failed(f, "ENOENT")
    ELSE Done([f EXCEPT ![path] = File(<<Json(object)>>,
                                       IF f[path].kind = "file" THEN f[path].mode
                                       ELSE FileMode)])

createSettings(f, hooksConfig, options) ==
    LET settings == [hooks |-> hooksConfig,
                     permissions |-> [editPermissions |-> "auto-accept",
                                      writePermissions |-> "auto-accept"],
                     enabledMcpjsonServers |-> <<>>]
    IN  IF ~options.dryRun THEN writeJson(f, settingsPath, settings) ELSE Done(f)

createSkillRules(f, skillRules, options) ==
    IF ~options.dryRun THEN writeJson(f, skillRulesPath, skillRules) ELSE Done(f)

createCLIConfig(f, config, options) ==
    IF ~options.dryRun THEN writeJson(f, configPath, config) ELSE Done(f)

\* npm install in .claude/hooks: it creates node_modules, or fails.
installHookDependencies(f, options, npmSucceeds) ==
    IF ~pathExists(f, hooksPackageJson) THEN Done(f)
    ELSE IF options.dryRun THEN Done(f)
    ELSE IF npmSucceeds THEN Done(ensureDir(f, hookNodeModules))
    ELSE Failed(f, "npm install failed")

\* .gitignore is modelled line by line: a text is the sequence of its lines
\* and line breaks, and the marker is the line "# Claude Code".  fs.readFile
\* rejects with EISDIR when .gitignore is a directory.
gitignoreEntries ==
    <<"# Claude Code", "\n", ".claude/settings.local.json", "\n",
      ".claude/hooks/node_modules/", "\n", ".claude-code-cli.json">>

updateGitignore(f, options) ==
    LET content == IF pathExists(f, gitignorePath)
                   THEN Utf8Decode(f[gitignorePath].content)
                   ELSE <<>>
        hasClaudeEntries == \E i \in 1..Len(content) : content[i] = "# Claude Code"
        newContent == content \o <<"\n", "\n">> \o gitignoreEntries \o <<"\n">>
    IN  IF f[gitignorePath].kind = "dir" THEN Failed(f, "EISDIR")
        ELSE IF hasClaudeEntries THEN Done(f)
        ELSE IF ~options.dryRun THEN Done(writeFile(f, gitignorePath, newContent))
        ELSE Done(f)

essentialFiles ==
    << <<"settings.json">>, <<"skills", "skill-rules.json">>,
       <<"hooks", "skill-activation-prompt.sh">>,
       <<"hooks", "skill-activation-prompt.ts">>,
       <<"hooks", "post-tool-use-tracker.sh">> >>

\* A mutated verifyInstallation: a warning makes the installation invalid.
verifyInstallationStrict(f) ==
    LET missing == SelectSeq(essentialFiles, LAMBDA file : ~pathExists(f, join(claudeDir, file)))
        notExecutable == {p \in hookScripts(f) : ~isExecutable(f[p].mode)}
        warnings == {basename(p) : p \in notExecutable}
                    \cup (IF ~pathExists(f, hookNodeModules) THEN {"node_modules"} ELSE {})
    IN  IF ~pathExists(f, claudeDir)
        THEN [valid |-> FALSE, errors |-> <<claudeDir>>, warnings |-> {}]
        ELSE [valid |-> missing = <<>> /\ warnings = {}, errors |-> missing,
              warnings |-> warnings]

\* verifyInstallation: errors are the essential files that are missing (or
\* .claude itself), warnings the hook scripts that are not executable and the
\* missing hook dependencies.
verifyInstallation(f) ==
    LET missing == SelectSeq(essentialFiles, LAMBDA file : ~pathExists(f, join(claudeDir, file)))
        notExecutable == {p \in hookScripts(f) : ~isExecutable(f[p].mode)}
        warnings == {basename(p) : p \in notExecutable}
                    \cup (IF ~pathExists(f, hookNodeModules) THEN {"node_modules"} ELSE {})
    IN  IF ~pathExists(f, claudeDir)
        THEN [valid |-> FALSE, errors |-> <<claudeDir>>, warnings |-> {}]
        ELSE [valid |-> missing = <<>>, errors |-> missing, warnings |-> warnings]

(***************************************************************************)
(* Merger.  A JavaScript object is the sequence of its entries in          *)
(* enumeration order; an optional array is a record saying whether it is   *)
(* defined.  A trigger value is a text (a sequence of characters).         *)
(***************************************************************************)
Entry(key, value) == [key |-> key, value |-> value]

keysOf(object) == {object[i].key : i \in 1..Len(object)}

valueOf(object, key) == (CHOOSE e \in Range(object) : e.key = key).value

\* The keys that are canonical array indices ("1", "2", ...), with their value;
\* an object enumerates them first, in ascending order, whatever the order of
\* insertion.
ArrayIndex == ("1" :> 1) @@ ("2" :> 2)

IsArrayIndex(key) == key \in DOMAIN ArrayIndex

\* How many entries of object enumerate before a new property key.
EntriesBefore(object, key) ==
    IF IsArrayIndex(key)
    THEN Cardinality({i \in 1..Len(object) :
            IsArrayIndex(object[i].key) /\ ArrayIndex[object[i].key] < ArrayIndex[key]})
    ELSE Len(object)

\* object[key] = value: an existing own property keeps its place, a new one
\* goes to its place in the enumeration order.
setProperty(object, key, value) ==
    IF key \in keysOf(object)
    THEN [i \in 1..Len(object) |-> IF object[i].key = key THEN Entry(key, value)
                                   ELSE object[i]]
    ELSE LET n == EntriesBefore(object, key)
         IN  SubSeq(object, 1, n) \o <<Entry(key, value)>>
             \o SubSeq(object, n + 1, Len(object))

Undefined == [defined |-> FALSE, items |-> <<>>]

Array(items) == [defined |-> TRUE, items |-> items]

NoPromptTriggers ==
    [defined |-> FALSE, keywords |-> Undefined, intentPatterns |-> Undefined]

NoFileTriggers ==
    [defined |-> FALSE, pathPatterns |-> Undefined, pathExclusions |-> Undefined,
     contentPatterns |-> Undefined]

PromptTriggers(keywords, intentPatterns) ==
    [defined |-> TRUE, keywords |-> keywords, intentPatterns |-> intentPatterns]

FileTriggers(pathPatterns, pathExclusions, contentPatterns) ==
    [defined |-> TRUE, pathPatterns |-> pathPatterns, pathExclusions |-> pathExclusions,
     contentPatterns |-> contentPatterns]

\* A SkillRule; a scalar that is undefined is "".
SkillRule(type, enforcement, priority, promptTriggers, fileTriggers) ==
    [type |-> type, enforcement |-> enforcement, priority |-> priority,
     promptTriggers |-> promptTriggers, fileTriggers |-> fileTriggers]

\* What merged.skills[name] reads when name is no own property but a member
\* of Object.prototype ("constructor" is the one such name the skill-name
\* pattern ^[a-z0-9-]+$ admits): a truthy value without any rule field.
PrototypeMember == SkillRule("", "", "", NoPromptTriggers, NoFileTriggers)

InheritedNames == {"constructor"}

RECURSIVE replaceVariablesBatch(_, _)
\* strings.map(str => replaceVariables(str, context))
replaceVariablesBatch(strings, context) ==
    IF strings = <<>> THEN <<>>
    ELSE <<replaceVariables(Head(strings), context)>>
         \o replaceVariablesBatch(Tail(strings), context)

replaceInArray(array, context) ==
    IF array.defined THEN Array(replaceVariablesBatch(array.items, context)) ELSE array

\* replaceVariablesInObject on a SkillRule: every string leaf is substituted
\* (the enum scalars hold no "{{", so they pass unchanged); keys are not.
replaceVariablesInRule(rule, context) ==
    [rule EXCEPT
        !.promptTriggers.keywords = replaceInArray(@, context),
        !.promptTriggers.intentPatterns = replaceInArray(@, context),
        !.fileTriggers.pathPatterns = replaceInArray(@, context),
        !.fileTriggers.pathExclusions = replaceInArray(@, context),
        !.fileTriggers.contentPatterns = replaceInArray(@, context)]

\* replaceVariablesInObject on a fragment's skills.
replaceVariablesInObject(skills, context) ==
    [i \in 1..Len(skills) |->
        Entry(skills[i].key, replaceVariablesInRule(skills[i].value, context))]

RECURSIVE uniqueItems(_)
\* Array.from(new Set(items)): the first occurrence of each value, in order.
uniqueItems(items) ==
    IF items = <<>> THEN <<>>
    ELSE LET rest == uniqueItems(SubSeq(items, 1, Len(items) - 1))
         IN  IF items[Len(items)] \in Range(rest) THEN rest
             ELSE Append(rest, items[Len(items)])

\* A mutated mergeArrays: the incoming array replaces the existing one.
mergeArraysKeepsIncoming(arr1, arr2) ==
    IF ~arr1.defined /\ ~arr2.defined THEN Undefined
    ELSE IF arr2.defined THEN Array(uniqueItems(arr2.items))
    ELSE Array(uniqueItems(arr1.items))

mergeArrays(arr1, arr2) ==
    IF ~arr1.defined /\ ~arr2.defined THEN Undefined
    ELSE Array(uniqueItems(arr1.items \o arr2.items))

\* a || b on strings: "" is falsy.
OrElse(a, b) == IF a # "" THEN a ELSE b

\* A mutated mergeSkillRules: fileTriggers.pathExclusions is not carried over.
mergeSkillRulesDropsExclusions(existing, incoming) ==
    SkillRule(
        OrElse(incoming.type, existing.type),
        OrElse(incoming.enforcement, existing.enforcement),
        OrElse(incoming.priority, existing.priority),
        IF existing.promptTriggers.defined \/ incoming.promptTriggers.defined
        THEN PromptTriggers(
                mergeArrays(existing.promptTriggers.keywords,
                            incoming.promptTriggers.keywords),
                mergeArrays(existing.promptTriggers.intentPatterns,
                            incoming.promptTriggers.intentPatterns))
        ELSE NoPromptTriggers,
        IF existing.fileTriggers.defined \/ incoming.fileTriggers.defined
        THEN FileTriggers(
                mergeArrays(existing.fileTriggers.pathPatterns,
                            incoming.fileTriggers.pathPatterns),
                Undefined,
                mergeArrays(existing.fileTriggers.contentPatterns,
                            incoming.fileTriggers.contentPatterns))
        ELSE NoFileTriggers)

\* A mutated mergeSkillRules: the existing scalar wins over the incoming one.
mergeSkillRulesFirstWins(existing, incoming) ==
    SkillRule(
        OrElse(existing.type, incoming.type),
        OrElse(existing.enforcement, incoming.enforcement),
        OrElse(existing.priority, incoming.priority),
        IF existing.promptTriggers.defined \/ incoming.promptTriggers.defined
        THEN PromptTriggers(
                mergeArrays(existing.promptTriggers.keywords,
                            incoming.promptTriggers.keywords),
                mergeArrays(existing.promptTriggers.intentPatterns,
                            incoming.promptTriggers.intentPatterns))
        ELSE NoPromptTriggers,
        IF existing.fileTriggers.defined \/ incoming.fileTriggers.defined
        THEN FileTriggers(
                mergeArrays(existing.fileTriggers.pathPatterns,
                            incoming.fileTriggers.pathPatterns),
                mergeArrays(existing.fileTriggers.pathExclusions,
                            incoming.fileTriggers.pathExclusions),
                mergeArrays(existing.fileTriggers.contentPatterns,
                            incoming.fileTriggers.contentPatterns))
        ELSE NoFileTriggers)

mergeSkillRules(existing, incoming) ==
    SkillRule(
        OrElse(incoming.type, existing.type),
        OrElse(incoming.enforcement, existing.enforcement),
        OrElse(incoming.priority, existing.priority),
        IF existing.promptTriggers.defined \/ incoming.promptTriggers.defined
        THEN PromptTriggers(
                mergeArrays(existing.promptTriggers.keywords,
                            incoming.promptTriggers.keywords),
                mergeArrays(existing.promptTriggers.intentPatterns,
                            incoming.promptTriggers.intentPatterns))
        ELSE NoPromptTriggers,
        IF existing.fileTriggers.defined \/ incoming.fileTriggers.defined
        THEN FileTriggers(
                mergeArrays(existing.fileTriggers.pathPatterns,
                            incoming.fileTriggers.pathPatterns),
                mergeArrays(existing.fileTriggers.pathExclusions,
                            incoming.fileTriggers.pathExclusions),
                mergeArrays(existing.fileTriggers.contentPatterns,
                            incoming.fileTriggers.contentPatterns))
        ELSE NoFileTriggers)

\* One iteration of the inner loop of mergeSkillRulesFragments.
mergeSkill(merged, skillName, skillRule) ==
    IF skillName \in keysOf(merged)
    THEN setProperty(merged, skillName, mergeSkillRules(valueOf(merged, skillName), skillRule))
    ELSE IF skillName \in InheritedNames
    THEN setProperty(merged, skillName, mergeSkillRules(PrototypeMember, skillRule))
    ELSE setProperty(merged, skillName, skillRule)

RECURSIVE mergeSkills(_, _, _)
\* for (const [skillName, skillRule] of Object.entries(processedFragment.skills))
mergeSkills(merged, skills, i) ==
    IF i > Len(skills) THEN merged
    ELSE mergeSkills(mergeSkill(merged, skills[i].key, skills[i].value), skills, i + 1)

\* The context argument left out (context?: TemplateContext).  A context
\* without variables, {}, substitutes nothing either and is the same value.
NoContext == <<>>

RECURSIVE mergeFragmentsFrom(_, _, _, _)
\* for (const fragment of fragments)
mergeFragmentsFrom(merged, fragmentList, i, context) ==
    IF i > Len(fragmentList) THEN merged
    ELSE LET processedFragment == IF context # NoContext
                                  THEN replaceVariablesInObject(fragmentList[i], context)
                                  ELSE fragmentList[i]
         IN  mergeFragmentsFrom(mergeSkills(merged, processedFragment, 1),
                                fragmentList, i + 1, context)

\* A fragment is the entry sequence of its skills object.
mergeSkillRulesFragments(fragmentList, context) ==
    mergeFragmentsFrom(<<>>, fragmentList, 1, context)

deduplicateArray(array) ==
    IF array.defined THEN Array(uniqueItems(array.items)) ELSE Undefined

\* The rule deduplicateSkillRules stores for one skill.
deduplicateRule(skillRule) ==
    [skillRule EXCEPT
        !.promptTriggers =
            IF @.defined
            THEN PromptTriggers(deduplicateArray(@.keywords),
                                deduplicateArray(@.intentPatterns))
            ELSE NoPromptTriggers,
        !.fileTriggers =
            IF @.defined
            THEN FileTriggers(deduplicateArray(@.pathPatterns),
                              deduplicateArray(@.pathExclusions),
                              deduplicateArray(@.contentPatterns))
            ELSE NoFileTriggers]

RECURSIVE deduplicateFrom(_, _, _)
deduplicateFrom(deduplicated, skills, i) ==
    IF i > Len(skills) THEN deduplicated
    ELSE deduplicateFrom(
            setProperty(deduplicated, skills[i].key, deduplicateRule(skills[i].value)),
            skills, i + 1)

deduplicateSkillRules(skills) == deduplicateFrom(<<>>, skills, 1)

UnknownPriority == 999

\* priorityOrder[priority] ?? 999
priorityOrder(priority) ==
    CASE priority = "critical" -> 0
      [] priority = "high" -> 1
      [] priority = "medium" -> 2
      [] priority = "low" -> 3
      [] OTHER -> UnknownPriority

RECURSIVE stableSort(_)
\* Array.prototype.sort with the priority comparator: a stable sort, so an
\* entry goes behind every sorted entry whose priority is not greater.
stableSort(entries) ==
    IF entries = <<>> THEN <<>>
    ELSE LET sorted == stableSort(SubSeq(entries, 1, Len(entries) - 1))
             last == entries[Len(entries)]
             n == Cardinality({i \in 1..Len(sorted) :
                     priorityOrder(sorted[i].value.priority)
                         <= priorityOrder(last.value.priority)})
         IN  SubSeq(sorted, 1, n) \o <<last>> \o SubSeq(sorted, n + 1, Len(sorted))

RECURSIVE rebuildFrom(_, _, _)
\* for (const [skillName, skillRule] of entries) sorted.skills[skillName] = skillRule
rebuildFrom(sorted, entries, i) ==
    IF i > Len(entries) THEN sorted
    ELSE rebuildFrom(setProperty(sorted, entries[i].key, entries[i].value), entries, i + 1)

sortSkillsByPriority(skills) == rebuildFrom(<<>>, stableSort(skills), 1)

\* array?.length, 0 (falsy) for an absent array.
LengthOf(array) == IF array.defined THEN Len(array.items) ELSE 0

\* A mutated hasNoTriggers: pathExclusions counts as a trigger.
hasNoTriggersCountsExclusions(skillRule) ==
    /\ LengthOf(skillRule.promptTriggers.keywords) = 0
    /\ LengthOf(skillRule.promptTriggers.intentPatterns) = 0
    /\ LengthOf(skillRule.fileTriggers.pathPatterns) = 0
    /\ LengthOf(skillRule.fileTriggers.pathExclusions) = 0
    /\ LengthOf(skillRule.fileTriggers.contentPatterns) = 0

\* !hasPromptTriggers && !hasFileTriggers
hasNoTriggers(skillRule) ==
    /\ LengthOf(skillRule.promptTriggers.keywords) = 0
    /\ LengthOf(skillRule.promptTriggers.intentPatterns) = 0
    /\ LengthOf(skillRule.fileTriggers.pathPatterns) = 0
    /\ LengthOf(skillRule.fileTriggers.contentPatterns) = 0

Warning(kind, skillNames) == [kind |-> kind, skills |-> skillNames]

\* The keys of the entries, in order.
keysIn(entries) == [i \in 1..Len(entries) |-> entries[i].key]

\* skillsByEnforcement['block:guardrail'] || []
blockingGuardrails(skills) ==
    keysIn(SelectSeq(skills, LAMBDA e : e.value.enforcement = "block"
                                        /\ e.value.type = "guardrail"))

\* validateMergedSkillRules: one warning for more than one blocking guardrail,
\* then one warning for each skill without trigger patterns.
validateMergedSkillRules(skills) ==
    LET silent == keysIn(SelectSeq(skills, LAMBDA e : hasNoTriggers(e.value)))
        warnings ==
            (IF Len(blockingGuardrails(skills)) > 1
             THEN <<Warning("Multiple blocking guardrails", blockingGuardrails(skills))>>
             ELSE <<>>)
            \o [i \in 1..Len(silent) |-> Warning("no trigger patterns", <<silent[i]>>)]
    IN  [valid |-> warnings = <<>>, warnings |-> warnings]

(***************************************************************************)
(* Merger.deepMerge and Merger.mergeSettings.  A JSON value is a scalar, an *)
(* array or a plain object; arrays and objects carry the reference they are *)
(* identified by, since a Set holds objects by reference and scalars by     *)
(* value.  A reference is the place the node was built at.                  *)
(***************************************************************************)
Scalar(value) == [scalar |-> value]

ArrayAt(ref, items) == [ref |-> ref, items |-> items]

ObjectAt(ref, entries) == [ref |-> ref, entries |-> entries]

\* merged[key] of a key that is no property.
UndefinedValue == [undefined |-> TRUE]

isArray(value) == "items" \in DOMAIN value

isPlainObject(value) == "entries" \in DOMAIN value

\* The truthiness `||` tests: undefined and "" are falsy, every array and
\* object is truthy.
IsTruthy(value) ==
    /\ value # UndefinedValue
    /\ value # Scalar("")

getProperty(object, key) ==
    IF key \in keysOf(object.entries) THEN valueOf(object.entries, key)
    ELSE UndefinedValue

\* The equality a Set keeps its members apart by.
sameValueZero(a, b) ==
    IF "ref" \in DOMAIN a THEN "ref" \in DOMAIN b /\ a.ref = b.ref
    ELSE a = b

RECURSIVE arrayFromSet(_)
\* Array.from(new Set(items)): the first occurrence of each member, in order.
arrayFromSet(items) ==
    IF items = <<>> THEN <<>>
    ELSE LET rest == arrayFromSet(SubSeq(items, 1, Len(items) - 1))
             last == items[Len(items)]
         IN  IF \E i \in 1..Len(rest) : sameValueZero(rest[i], last) THEN rest
             ELSE Append(rest, last)

\* The reference of an array or object the merge creates.
NewRef(target, source) == <<[target |-> target, source |-> source]>>

RECURSIVE deepMerge(_, _)
RECURSIVE deepMergeKeys(_, _, _)
\* The loop of deepMerge over Object.keys(source), from the i-th key on.
deepMergeKeys(merged, source, i) ==
    IF i > Len(source.entries) THEN merged
    ELSE LET key == source.entries[i].key
             incoming == source.entries[i].value
             existing == getProperty(merged, key)
             value ==
                 IF isPlainObject(incoming)
                 THEN deepMerge(IF IsTruthy(existing) THEN existing
                                ELSE ObjectAt(NewRef(merged.ref, <<[key |-> key]>>), <<>>),
                                incoming)
                 ELSE IF isArray(incoming)
                 THEN deepMerge(IF IsTruthy(existing) THEN existing
                                ELSE ArrayAt(NewRef(merged.ref, <<[key |-> key]>>), <<>>),
                                incoming)
                 ELSE incoming
         IN  deepMergeKeys(ObjectAt(merged.ref, setProperty(merged.entries, key, value)),
                           source, i + 1)

deepMerge(target, source) ==
    IF isArray(target) /\ isArray(source)
    THEN ArrayAt(NewRef(target.ref, source.ref),
                 arrayFromSet(target.items \o source.items))
    ELSE IF isPlainObject(target) /\ isPlainObject(source)
    THEN deepMergeKeys(ObjectAt(NewRef(target.ref, source.ref), target.entries),
                       source, 1)
    ELSE source

RECURSIVE mergeSettingsFrom(_, _, _)
mergeSettingsFrom(merged, overrides, i) ==
    IF i > Len(overrides) THEN merged
    ELSE mergeSettingsFrom(deepMerge(merged, overrides[i]), overrides, i + 1)

\* merged = {...base}, then deepMerge with each override in turn.
mergeSettings(base, overrides) ==
    mergeSettingsFrom(ObjectAt(NewRef(base.ref, <<>>), base.entries), overrides, 1)

(***************************************************************************)
(* Merger.mergeHooks.  merged = {...baseHooks} copies the properties, not   *)
(* the arrays they hold: an array of baseHooks is the same array in merged, *)
(* and a push into it is a push into the array baseHooks holds.  The state  *)
(* of a call is merged together with baseHooks as the call has left it.     *)
(***************************************************************************)
\* One hookType of one plugin's hooks: merged[hookType].push(...incoming).
pushHooks(st, hookType, hookConfigs) ==
    LET current == getProperty(st.merged, hookType)
        held == getProperty(st.baseHooks, hookType)
        array == IF ~IsTruthy(current)
                 THEN ArrayAt(NewRef(st.merged.ref, <<[key |-> hookType]>>), <<>>)
                 ELSE IF ~isArray(current)
                 THEN ArrayAt(NewRef(st.merged.ref, <<[key |-> hookType]>>),
                              <<current>>)
                 ELSE current
        incoming == IF isArray(hookConfigs) THEN hookConfigs.items
                    ELSE <<hookConfigs>>
        pushed == ArrayAt(array.ref, array.items \o incoming)
    IN  [merged |-> ObjectAt(st.merged.ref,
                             setProperty(st.merged.entries, hookType, pushed)),
         baseHooks |-> IF isArray(held) /\ held.ref = array.ref
                       THEN ObjectAt(st.baseHooks.ref,
                                     setProperty(st.baseHooks.entries, hookType, pushed))
                       ELSE st.baseHooks]

RECURSIVE mergeHooksEntries(_, _, _)
\* for (const [hookType, hookConfigs] of Object.entries(hooks)), from i on.
mergeHooksEntries(st, hooks, i) ==
    IF i > Len(hooks.entries) THEN st
    ELSE mergeHooksEntries(pushHooks(st, hooks.entries[i].key, hooks.entries[i].value),
                           hooks, i + 1)

RECURSIVE mergeHooksFrom(_, _, _)
\* for (const hooks of pluginHooks), from the i-th on.
mergeHooksFrom(st, pluginHooks, i) ==
    IF i > Len(pluginHooks) THEN st
    ELSE mergeHooksFrom(mergeHooksEntries(st, pluginHooks[i], 1), pluginHooks, i + 1)

mergeHooks(baseHooks, pluginHooks) ==
    mergeHooksFrom([merged |-> ObjectAt(NewRef(baseHooks.ref, <<>>), baseHooks.entries),
                    baseHooks |-> baseHooks],
                   pluginHooks, 1)

RECURSIVE At(_, _)
\* The value with every array and object of it identified by its place below
\* ref: what parsing the JSON text of the value at ref builds.
At(value, ref) ==
    IF isArray(value)
    THEN ArrayAt(ref, [i \in 1..Len(value.items) |->
                         At(value.items[i], Append(ref, [index |-> i]))])
    ELSE IF isPlainObject(value)
    THEN ObjectAt(ref, [i \in 1..Len(value.entries) |->
                          Entry(value.entries[i].key,
                                At(value.entries[i].value,
                                   Append(ref, [key |-> value.entries[i].key])))])
    ELSE value

RECURSIVE Structure(_)
\* The value without its references: what JSON.stringify or a deep equality
\* sees of it.
Structure(value) ==
    IF isArray(value)
    THEN ArrayAt(<<>>, [i \in 1..Len(value.items) |-> Structure(value.items[i])])
    ELSE IF isPlainObject(value)
    THEN ObjectAt(<<>>, [i \in 1..Len(value.entries) |->
                           Entry(value.entries[i].key,
                                 Structure(value.entries[i].value))])
    ELSE value

(***************************************************************************)
(* PluginValidator.validateManifest.  A manifest is the record of the       *)
(* fields the validator looks at; the strings a field may hold are listed   *)
(* with the verdict of the pattern or of semver.validRange on them.         *)
(***************************************************************************)
\* pattern ^[a-z0-9]+(?:-[a-z0-9]+)*$ on the names "a" and "A".
MatchesNamePattern(name) == name = "a"

\* pattern ^\d+\.\d+\.\d+(?:-[a-z0-9.]+)?$ on the versions "1.0.0" and "1".
MatchesVersionPattern(version) == version = "1.0.0"

\* semver.validRange(range) !== null on the ranges ">=1.0.0", "*" and "latest".
isValidVersionRange(range) == range \in {">=1.0.0", "*"}

\* author.includes('<') or author.includes('@') on the authors listed.
IncludesEmail(author) == author = "n <e@x>"

ManifestError(keyword, path) == [keyword |-> keyword, path |-> path]

\* The errors of the compiled schema (allErrors: true), in schema order.
validatePluginManifest(manifest) ==
    (IF MatchesNamePattern(manifest.name) THEN <<>>
     ELSE <<ManifestError("pattern", "/name")>>)
    \o (IF MatchesVersionPattern(manifest.version) THEN <<>>
        ELSE <<ManifestError("pattern", "/version")>>)
    \o (IF manifest.author # "" THEN <<>>
        ELSE <<ManifestError("minLength", "/author")>>)

validateManifest(manifest) ==
    LET schemaErrors == validatePluginManifest(manifest)
        additionalErrors ==
            (IF isValidVersionRange(manifest.compatibility.claudeCode) THEN <<>>
             ELSE <<ManifestError("range", "/compatibility/claudeCode")>>)
            \o (IF isValidVersionRange(manifest.compatibility.node) THEN <<>>
                ELSE <<ManifestError("range", "/compatibility/node")>>)
            \o (IF IncludesEmail(manifest.author) THEN <<>>
                ELSE <<ManifestError("email", "/author")>>)
    IN  IF schemaErrors # <<>> THEN [valid |-> FALSE, errors |-> schemaErrors]
        ELSE IF additionalErrors # <<>>
        THEN [valid |-> FALSE, errors |-> additionalErrors]
        ELSE [valid |-> TRUE, errors |-> <<>>]

(***************************************************************************)
(* Inputs of the specifications.                                           *)
(***************************************************************************)
EmptyProject == [p \in DestinationPaths |-> Absent]

OldContent == <<"o">>

\* The destination files a project may hold before the run.
PreExistingFiles ==
    { <<".claude", "hooks", "skill-activation-prompt.sh">>,
      <<".claude", "agents", "logo.png">>,
      gitignorePath }

\* A project tree: the chosen files with their old content, below their
\* directories; .claude itself when claudeExists.
ProjectTree(claudeExists, files) ==
    [p \in DestinationPaths |->
        IF p \in files THEN File(OldContent, FileMode)
        ELSE IF \E q \in files : p \in Prefixes(q) THEN Directory
        ELSE IF claudeExists /\ p = claudeDir THEN Directory
        ELSE Absent]

ProjectTrees ==
    {ProjectTree(e, F) : e \in BOOLEAN, F \in SUBSET PreExistingFiles}

InstallOptions == [force : BOOLEAN, dryRun : BOOLEAN]

HooksConfig == "hooksConfig"

EmptyRules == [skills |-> <<>>]

DefaultContext == (<<"A">> :> Str(<<"s">>))

Contexts == {DefaultContext, (<<"A">> :> Str(<<"t", "t">>))}

(***************************************************************************)
(* SpecResolver: getInstallationOrder as a function of the plugin          *)
(* directory and the request.  The resolver's input is the set of loaded   *)
(* manifests, so every manifest here is absent or valid.                   *)
(***************************************************************************)
Pending == [state |-> "pending", order |-> <<>>, error |-> NoError]

\* The variables of the other components while they are not in use.
NoCall == arguments = <<>> /\ returned = <<>> /\ lastIndex = 0

NoMerge == fragments = <<>> /\ mergedSkillRules = <<>> /\ mergeWarnings = <<>>

NoRun ==
    /\ pc = "idle"
    /\ cliOptions = [force |-> FALSE, yes |-> FALSE]
    /\ cursor = 1
    /\ installedPlugins = <<>>
    /\ startTree = fs
    /\ failure = ""

NoFragmentFiles == [p \in PluginNames |-> NoFragmentFile]

Outcome(r) ==
    IF r.threw THEN [state |-> "threw", order |-> <<>>, error |-> r.error]
    ELSE [state |-> "returned", order |-> r.value, error |-> NoError]

InitResolver ==
    /\ manifests \in [PluginNames -> ValidManifests \cup {AbsentManifest}]
    /\ fragmentFiles = NoFragmentFiles
    /\ NoCall
    /\ pluginNames \in SeqsUpTo(PluginNames, MaxRequest)
    /\ resolved = Pending
    /\ fs = EmptyProject
    /\ runContext = DefaultContext
    /\ NoMerge
    /\ NoRun

Resolve ==
    /\ resolved.state = "pending"
    /\ resolved' = Outcome(getInstallationOrder(pluginNames))
    /\ UNCHANGED <<callVars, pluginDirVars, pluginNames, fs, runContext, mergerVars, runVars>>

NextResolver == Resolve

SpecResolver == InitResolver /\ [][NextResolver]_vars

(***************************************************************************)
(* The dependency graph, stated independently of the traversal.            *)
(***************************************************************************)
DirectDeps(p) == Range(manifests[p].plugins)

RECURSIVE Reach(_)
\* Every name reachable from the set S by zero or more dependency edges.
Reach(S) ==
    LET T == S \cup UNION {DirectDeps(p) : p \in S}
    IN  IF T = S THEN S ELSE Reach(T)

\* All direct and transitive dependencies of p.
TransitiveDeps(p) == Reach(DirectDeps(p))

OnCycle(p) == p \in TransitiveDeps(p)

Requested == Reach(Range(pluginNames))

GraphHasCycle == \E p \in Requested : OnCycle(p)

\* C1: over an acyclic dependency graph getInstallationOrder returns, and in
\* the returned order every plugin comes strictly after each of its direct
\* and transitive dependencies (which are all present in the order).
C1_DependenciesFirst ==
    (resolved.state # "pending" /\ ~GraphHasCycle) =>
        /\ resolved.state = "returned"
        /\ \A p \in Range(resolved.order) : \A d \in TransitiveDeps(p) :
              /\ d \in Range(resolved.order)
              /\ \A i, j \in 1..Len(resolved.order) :
                    (resolved.order[i] = p /\ resolved.order[j] = d) => j < i

\* A diamond: two requested-or-reachable plugins share a dependency, and the
\* order was returned.
C1_Witness ==
    /\ resolved.state = "returned"
    /\ ~GraphHasCycle
    /\ \E p, q, d \in PluginNames :
          /\ p # q /\ d \notin {p, q}
          /\ d \in DirectDeps(p) /\ d \in DirectDeps(q)
          /\ q \in DirectDeps(p)
          /\ p \in Range(pluginNames)

\* C2: when the graph reachable from the request has a cycle (a self
\* dependency included), getInstallationOrder throws the circular-dependency
\* error, returns no order, and the name the error reports lies on a cycle.
C2_CycleRejected ==
    (resolved.state # "pending" /\ GraphHasCycle) =>
        /\ resolved.state = "threw"
        /\ resolved.order = <<>>
        /\ resolved.error.kind = "CircularDependency"
        /\ resolved.error.circular \in PluginNames
        /\ OnCycle(resolved.error.circular)

\* A cycle that does not pass through the requested plugin was rejected.
C2_Witness ==
    /\ resolved.state = "threw"
    /\ GraphHasCycle
    /\ \E p \in Range(pluginNames) : ~OnCycle(p) /\ resolved.error.plugin = p

\* C8 as claimed: a request list that names a plugin twice is rejected.
C8_DuplicatesRejected ==
    (resolved.state # "pending" /\ ~NoDuplicates(pluginNames)) => resolved.state = "threw"

Occurrences(s, x) == Cardinality({i \in 1..Len(s) : s[i] = x})

\* C8 as amended: getInstallationOrder does not reject a duplicate.  The
\* repeated name is skipped: unless the graph has a cycle the call returns
\* an order in which that name (like every other) occurs exactly once.
C8_DuplicatesCollapsed ==
    (resolved.state # "pending" /\ ~NoDuplicates(pluginNames) /\ ~GraphHasCycle) =>
        /\ resolved.state = "returned"
        /\ \A p \in Range(pluginNames) : Occurrences(resolved.order, p) = 1
        /\ NoDuplicates(resolved.order)

\* The request <<p, p>> was answered with an order.
C8_Witness ==
    /\ resolved.state = "returned"
    /\ Len(pluginNames) = 2 /\ pluginNames[1] = pluginNames[2]
    /\ Len(resolved.order) >= 2

(***************************************************************************)
(* SpecInstaller: any sequence of Installer calls, each with any options,  *)
(* on a project that may already hold files.                               *)
(***************************************************************************)
InitInstaller ==
    /\ manifests = [p \in PluginNames |->
                      IF p = "c" THEN AbsentManifest
                      ELSE [status |-> "valid", plugins |-> <<>>]]
    /\ fragmentFiles = NoFragmentFiles
    /\ NoCall
    /\ pluginNames = <<>>
    /\ resolved = Pending
    /\ fs \in ProjectTrees
    /\ runContext \in Contexts
    /\ NoMerge
    /\ NoRun

Apply(result) ==
    /\ fs' = result.fs
    /\ UNCHANGED <<callVars, pluginDirVars, resolverVars, runContext, mergerVars, runVars>>

CreateClaudeDirectory ==
    \E options \in InstallOptions : Apply(createClaudeDirectory(fs, options))

InstallCore ==
    \E options \in InstallOptions : Apply(installCore(fs, runContext, options))

InstallPlugin ==
    \E options \in InstallOptions, pluginName \in PluginNames :
        Apply(installPlugin(fs, pluginName, runContext, options))

CreateSettings ==
    \E options \in InstallOptions : Apply(createSettings(fs, HooksConfig, options))

CreateSkillRules ==
    \E options \in InstallOptions : Apply(createSkillRules(fs, EmptyRules, options))

CreateCLIConfig ==
    \E options \in InstallOptions : Apply(createCLIConfig(fs, "cliConfig", options))

InstallHookDependencies ==
    \E options \in InstallOptions, npmSucceeds \in BOOLEAN :
        Apply(installHookDependencies(fs, options, npmSucceeds))

UpdateGitignore ==
    \E options \in InstallOptions : Apply(updateGitignore(fs, options))

NextInstaller ==
    \/ CreateClaudeDirectory
    \/ InstallCore
    \/ InstallPlugin
    \/ CreateSettings
    \/ CreateSkillRules
    \/ CreateCLIConfig
    \/ InstallHookDependencies
    \/ UpdateGitignore

SpecInstaller == InitInstaller /\ [][NextInstaller]_vars

\* Every file of f is still a file with the same bytes in g, and a file of g
\* that is new was absent in f.
FilesPreserved(f, g) ==
    \A p \in DOMAIN f :
        /\ f[p].kind = "file" => (g[p].kind = "file" /\ g[p].content = f[p].content)
        /\ (g[p].kind = "file" /\ f[p].kind # "file") => f[p].kind = "absent"

NoForce == {o \in InstallOptions : ~o.force}

DryRun == {o \in InstallOptions : o.dryRun}

\* C5: without the force flag no copying step (copyFile on any source file,
\* copyDirectory on any source directory, installCore, installPlugin) changes
\* the bytes of a file that already exists in the destination tree; only
\* absent files are created.
C5_ExistingFilesKept ==
    \A options \in NoForce :
        /\ \A src \in cliRoot :
              FilesPreserved(fs, copyFile(fs, src.path, destinationOf(src.path),
                                          runContext, options).fs)
        /\ \A dir \in {<<"core", "hooks">>, <<"plugins", "a", "agents">>} :
              FilesPreserved(fs, copyDirectory(fs, dir,
                                               dirname(destinationOf(dir \o <<"x">>)),
                                               runContext, options).fs)
        /\ FilesPreserved(fs, installCore(fs, runContext, options).fs)
        /\ \A pluginName \in PluginNames :
              FilesPreserved(fs, installPlugin(fs, pluginName, runContext, options).fs)

\* installCore ran without force on a tree that held the hook script: the old
\* script is still there beside the newly copied package.json.
C5_Witness ==
    /\ fs[<<".claude", "hooks", "skill-activation-prompt.sh">>].kind = "file"
    /\ fs[<<".claude", "hooks", "skill-activation-prompt.sh">>].content = OldContent
    /\ fs[hooksPackageJson].kind = "file"
    /\ fs[<<".claude", "skills", "skill-developer", "SKILL.md">>].kind = "file"

\* What a copy is specified to leave at the destination: the substituted text
\* for a text extension, the source bytes otherwise.
SpecifiedCopy(src, ctx) ==
    IF extname(src.path) \in textExtensions
    THEN Utf8Encode(replaceVariables(Utf8Decode(src.content), ctx))
    ELSE src.content

\* C6: with force set and dry-run unset, copying a source file over an
\* existing destination leaves the substituted text there when the extension
\* is a text extension, and the unchanged source content otherwise.
C6_ForceOverwrites ==
    \A src \in cliRoot :
        LET dest == destinationOf(src.path)
            after == copyFile(fs, src.path, dest, runContext,
                              [force |-> TRUE, dryRun |-> FALSE]).fs
        IN  pathExists(fs, dest) =>
                /\ after[dest].kind = "file"
                /\ after[dest].content = SpecifiedCopy(src, runContext)

\* C7: with dryRun set, no Installer operation changes the destination tree
\* (no file or directory is created, no content or mode changes), whatever the
\* tree and the other arguments; createClaudeDirectory still throws when
\* .claude exists and force is unset.
C7_DryRunWritesNothing ==
    \A options \in DryRun :
        /\ createClaudeDirectory(fs, options).fs = fs
        /\ installCore(fs, runContext, options).fs = fs
        /\ \A pluginName \in PluginNames :
              installPlugin(fs, pluginName, runContext, options).fs = fs
        /\ createSettings(fs, HooksConfig, options).fs = fs
        /\ createSkillRules(fs, EmptyRules, options).fs = fs
        /\ createCLIConfig(fs, "cliConfig", options).fs = fs
        /\ \A npmSucceeds \in BOOLEAN :
              installHookDependencies(fs, options, npmSucceeds).fs = fs
        /\ updateGitignore(fs, options).fs = fs
        /\ (pathExists(fs, claudeDir) /\ ~options.force) =>
              createClaudeDirectory(fs, options).threw

\* A tree after earlier (real) calls in which .claude exists, so that the dry
\* createClaudeDirectory throws, and in which every operation would write if
\* dryRun were unset.
C7_Witness ==
    /\ pathExists(fs, claudeDir)
    /\ fs[hooksPackageJson].kind = "file"
    /\ fs[hookNodeModules].kind = "absent"
    /\ createClaudeDirectory(fs, [force |-> FALSE, dryRun |-> TRUE]).threw
    /\ \A options \in {o \in InstallOptions : o.force /\ ~o.dryRun} :
          /\ installCore(fs, runContext, options).fs # fs
          /\ installPlugin(fs, "a", runContext, options).fs # fs
          /\ installHookDependencies(fs, options, TRUE).fs # fs
          /\ updateGitignore(fs, options).fs # fs

(***************************************************************************)
(* SpecMerger: the merge pipeline of Step 11 (mergeSkillRulesFragments,    *)
(* deduplicateSkillRules, sortSkillsByPriority) on every list of fragments *)
(* within the bounds.  The fragments are schema-valid, as                  *)
(* loadSkillRulesFragment has validated them: type, enforcement and        *)
(* priority are present, and no array lists a value twice.                 *)
(***************************************************************************)
MaxFragments == 2   \* longest fragment list

TextX == <<"x">>

TextY == <<"y">>

TextS == <<"s">>

PlaceholderA == <<"{", "{", "A", "}", "}">>

\* The rules a fragment may give to skill "a".
SkillRules ==
    { SkillRule("domain", "suggest", "low",
                PromptTriggers(Array(<<TextX>>), Undefined), NoFileTriggers),
      SkillRule("domain", "block", "critical",
                PromptTriggers(Array(<<TextY>>), Undefined), NoFileTriggers),
      SkillRule("guardrail", "block", "high", NoPromptTriggers,
                FileTriggers(Array(<<PlaceholderA>>), Array(<<PlaceholderA, TextS>>),
                             Undefined)),
      SkillRule("guardrail", "warn", "medium", NoPromptTriggers, NoFileTriggers),
      SkillRule("domain", "suggest", "low",
                PromptTriggers(Undefined, Array(<<TextS, TextX>>)),
                FileTriggers(Undefined, Array(<<TextS>>), Array(<<TextX>>))),
      SkillRule("guardrail", "block", "critical",
                PromptTriggers(Array(<<TextX>>), Array(<<PlaceholderA>>)),
                FileTriggers(Array(<<TextS>>), Undefined, Array(<<TextY, TextX>>))) }

\* The rules a fragment may give to skill "constructor".
InheritedSkillRules ==
    { SkillRule("domain", "warn", "high",
                PromptTriggers(Array(<<PlaceholderA, TextS>>), Undefined), NoFileTriggers),
      SkillRule("guardrail", "block", "low", NoPromptTriggers,
                FileTriggers(Undefined, Array(<<TextX>>), Array(<<TextY>>))) }

SkillNames == {"a", "constructor"}

Fragments ==
    { first \o second :
        first \in {<<>>} \cup {<<Entry("a", r)>> : r \in SkillRules},
        second \in {<<>>} \cup {<<Entry("constructor", r)>> : r \in InheritedSkillRules} }

InitMerger ==
    /\ manifests = [p \in PluginNames |-> AbsentManifest]
    /\ fragmentFiles = NoFragmentFiles
    /\ NoCall
    /\ pluginNames = <<>>
    /\ resolved = Pending
    /\ fs = EmptyProject
    /\ runContext \in Contexts \cup {NoContext}
    /\ fragments \in SeqsUpTo(Fragments, MaxFragments)
    /\ mergedSkillRules = <<>>
    /\ mergeWarnings = <<>>
    /\ pc = "fragments"
    /\ cliOptions = [force |-> FALSE, yes |-> FALSE]
    /\ cursor = 1
    /\ installedPlugins = <<>>
    /\ startTree = fs
    /\ failure = ""

Pipeline(from, to, result) ==
    /\ pc = from
    /\ pc' = to
    /\ mergedSkillRules' = result
    /\ UNCHANGED <<callVars, pluginDirVars, resolverVars, fs, runContext, fragments, mergeWarnings,
                   cliOptions, cursor, installedPlugins, startTree, failure>>

MergeFragments ==
    Pipeline("fragments", "merged", mergeSkillRulesFragments(fragments, runContext))

Deduplicate ==
    Pipeline("merged", "deduplicated", deduplicateSkillRules(mergedSkillRules))

SortByPriority ==
    Pipeline("deduplicated", "sorted", sortSkillsByPriority(mergedSkillRules))

Validate ==
    /\ pc = "sorted"
    /\ pc' = "validated"
    /\ mergeWarnings' = validateMergedSkillRules(mergedSkillRules).warnings
    /\ UNCHANGED <<callVars, pluginDirVars, resolverVars, fs, runContext, fragments,
                   mergedSkillRules, cliOptions, cursor, installedPlugins, startTree,
                   failure>>

NextMerger == MergeFragments \/ Deduplicate \/ SortByPriority \/ Validate

SpecMerger == InitMerger /\ [][NextMerger]_vars

\* The indices of the fragments that define the skill.
Defining(fragmentList, skillName) ==
    {i \in 1..Len(fragmentList) : skillName \in keysOf(fragmentList[i])}

LastDefining(fragmentList, skillName) ==
    CHOOSE i \in Defining(fragmentList, skillName) :
        \A j \in Defining(fragmentList, skillName) : j <= i

\* C9: once the fragments are merged, every skill of the result carries the
\* type, enforcement and priority of the last fragment of the list that
\* defines the skill, whatever the earlier fragments gave (a less severe
\* value included); deduplication and sorting keep them.
C9_LastWriterWins ==
    pc \in {"merged", "deduplicated", "sorted"} =>
        /\ keysOf(mergedSkillRules) = UNION {keysOf(fragments[i]) : i \in 1..Len(fragments)}
        /\ \A skillName \in keysOf(mergedSkillRules) :
              LET last == valueOf(fragments[LastDefining(fragments, skillName)], skillName)
                  merged == valueOf(mergedSkillRules, skillName)
              IN  /\ merged.type = last.type
                  /\ merged.enforcement = last.enforcement
                  /\ merged.priority = last.priority

\* Skill "a" was given block/critical first and suggest/low last, and the
\* merged rule says suggest/low.
C9_Witness ==
    /\ pc = "merged"
    /\ Len(fragments) = 2
    /\ "a" \in keysOf(fragments[1]) /\ "a" \in keysOf(fragments[2])
    /\ valueOf(fragments[1], "a").enforcement = "block"
    /\ valueOf(fragments[1], "a").priority = "critical"
    /\ valueOf(fragments[1], "a").type = "guardrail"
    /\ valueOf(fragments[2], "a").type = "domain"
    /\ valueOf(mergedSkillRules, "a").enforcement = "suggest"
    /\ valueOf(mergedSkillRules, "a").priority = "low"

TriggerArrays ==
    {"keywords", "intentPatterns", "pathPatterns", "pathExclusions", "contentPatterns"}

\* The named trigger array of a rule.
TriggerArray(rule, field) ==
    CASE field = "keywords" -> rule.promptTriggers.keywords
      [] field = "intentPatterns" -> rule.promptTriggers.intentPatterns
      [] field = "pathPatterns" -> rule.fileTriggers.pathPatterns
      [] field = "pathExclusions" -> rule.fileTriggers.pathExclusions
      [] field = "contentPatterns" -> rule.fileTriggers.contentPatterns

\* The substituted values the fragments contribute to one array of one skill.
Contributed(fragmentList, skillName, field, context) ==
    UNION { {replaceVariables(v, context) :
                v \in Range(TriggerArray(valueOf(fragmentList[i], skillName), field).items)} :
            i \in Defining(fragmentList, skillName) }

\* skill name -> trigger array -> the set of its values.
TriggerSets(skills) ==
    [skillName \in keysOf(skills) |->
        [field \in TriggerArrays |->
            Range(TriggerArray(valueOf(skills, skillName), field).items)]]

\* Every order in which the fragments of the list can be processed.
Reorderings(fragmentList) ==
    { [i \in 1..Len(fragmentList) |-> fragmentList[f[i]]] :
        f \in {g \in [1..Len(fragmentList) -> 1..Len(fragmentList)] :
                  \A i, j \in 1..Len(fragmentList) : g[i] = g[j] => i = j} }

\* C10: after substitution, merging and deduplication each of the five
\* trigger arrays of every skill holds, as a set, exactly the substituted
\* values the fragments contribute to it, none of them twice, and processing
\* the fragments in any other order gives the same sets.
C10_TriggersAreUnions ==
    pc \in {"deduplicated", "sorted"} =>
        /\ \A skillName \in keysOf(mergedSkillRules) : \A field \in TriggerArrays :
              LET array == TriggerArray(valueOf(mergedSkillRules, skillName), field)
              IN  /\ Range(array.items) = Contributed(fragments, skillName, field, runContext)
                  /\ NoDuplicates(array.items)
        /\ \A permuted \in Reorderings(fragments) :
              TriggerSets(deduplicateSkillRules(
                              mergeSkillRulesFragments(permuted, runContext)))
                  = TriggerSets(mergedSkillRules)

\* Two fragments give skill "a" path patterns {{A}} and s, which the context
\* A = s makes one value; the same context makes the two path exclusions of
\* the first fragment one value; and "constructor" is merged too.
C10_Witness ==
    /\ pc = "deduplicated"
    /\ Len(fragments) = 2
    /\ runContext = DefaultContext
    /\ "a" \in keysOf(fragments[1]) /\ "a" \in keysOf(fragments[2])
    /\ valueOf(fragments[1], "a").fileTriggers.pathPatterns = Array(<<PlaceholderA>>)
    /\ valueOf(fragments[2], "a").fileTriggers.pathPatterns = Array(<<TextS>>)
    /\ valueOf(mergedSkillRules, "a").fileTriggers.pathPatterns = Array(<<TextS>>)
    /\ valueOf(mergedSkillRules, "a").fileTriggers.pathExclusions = Array(<<TextS>>)
    /\ valueOf(mergedSkillRules, "a").fileTriggers.contentPatterns = Array(<<TextY, TextX>>)
    /\ valueOf(mergedSkillRules, "a").promptTriggers.keywords = Array(<<TextX>>)
    /\ "constructor" \in keysOf(mergedSkillRules)

(***************************************************************************)
(* SpecInit: initCommand, one action per step, on a plugin directory that  *)
(* may hold an invalid manifest, an invalid fragment, a cycle and a        *)
(* dependency on a plugin that does not exist, and on a project that may   *)
(* already have a .claude directory.                                       *)
(***************************************************************************)
ValidManifest(plugins) == [status |-> "valid", plugins |-> plugins]

\* Plugin c never exists; a may depend on b or on c; b may depend on a or on
\* c, or be invalid.
InitManifests ==
    { [p \in PluginNames |-> IF p = "a" THEN ValidManifest(da)
                             ELSE IF p = "b" THEN mb
                             ELSE AbsentManifest] :
        da \in {<<>>, <<"b">>, <<"c">>},
        mb \in {ValidManifest(<<>>), ValidManifest(<<"a">>), ValidManifest(<<"c">>),
                InvalidManifest} }

FragmentOfA ==
    <<Entry("a", SkillRule("domain", "suggest", "low",
                           PromptTriggers(Array(<<TextX>>), Undefined), NoFileTriggers))>>

FragmentOfB ==
    <<Entry("a", SkillRule("domain", "block", "critical",
                           PromptTriggers(Array(<<TextY>>), Undefined), NoFileTriggers))>>

\* Skills without any trigger, with path exclusions only, with an empty
\* keyword list, and with content patterns only.
FragmentOfQuietSkills ==
    <<Entry("q", SkillRule("guardrail", "block", "high", NoPromptTriggers, NoFileTriggers)),
      Entry("e", SkillRule("domain", "suggest", "medium", NoPromptTriggers,
                           FileTriggers(Undefined, Array(<<TextS>>), Undefined))),
      Entry("k", SkillRule("domain", "warn", "low",
                           PromptTriggers(Array(<<>>), Undefined), NoFileTriggers)),
      Entry("g", SkillRule("guardrail", "block", "low", NoPromptTriggers,
                           FileTriggers(Undefined, Undefined, Array(<<TextY>>))))>>

InitFragmentFiles ==
    { [p \in PluginNames |-> IF p = "a" THEN fa ELSE IF p = "b" THEN fb
                             ELSE NoFragmentFile] :
        fa \in {FragmentFile(FragmentOfA), InvalidFragmentFile},
        fb \in {NoFragmentFile, FragmentFile(FragmentOfB),
                FragmentFile(FragmentOfQuietSkills)} }

InitRequests == {<<"a">>, <<"b">>, <<"a", "b">>, <<"c", "a">>}

InitTrees ==
    { EmptyProject, ProjectTree(TRUE, {}),
      ProjectTree(TRUE, {<<".claude", "hooks", "skill-activation-prompt.sh">>}),
      [EmptyProject EXCEPT ![gitignorePath] = Directory],
      ProjectTree(TRUE, {<<".claude", "skills", "a">>}) }

InitOptions == [force : BOOLEAN, yes : BOOLEAN]

\* No options are handed to the Installer but force to createClaudeDirectory.
DefaultOptions == [force |-> FALSE, dryRun |-> FALSE]

InitInit ==
    /\ manifests \in InitManifests
    /\ fragmentFiles \in InitFragmentFiles
    /\ NoCall
    /\ pluginNames \in InitRequests
    /\ resolved = Pending
    /\ fs \in InitTrees
    /\ runContext = DefaultContext
    /\ NoMerge
    /\ pc = "checkExisting"
    /\ cliOptions \in InitOptions
    /\ cursor = 1
    /\ installedPlugins = <<>>
    /\ startTree = fs
    /\ failure = ""

\* The catch block of initCommand: the error is logged and the process exits.
Exit(message) == pc' = "exit" /\ failure' = message

Goto(step) == pc' = step /\ failure' = ""

\* Step 1: an existing .claude needs --force, or the user's confirmation.
CheckExisting ==
    /\ pc = "checkExisting"
    /\ IF ~pathExists(fs, claudeDir) THEN Goto("resolve")
       ELSE IF ~cliOptions.force /\ ~cliOptions.yes
            THEN \E shouldOverwrite \in BOOLEAN :
                    IF shouldOverwrite THEN Goto("resolve") ELSE Goto("cancelled")
       ELSE IF ~cliOptions.force THEN Exit(".claude directory already exists")
       ELSE Goto("resolve")
    /\ UNCHANGED <<callVars, pluginDirVars, resolverVars, fs, runContext, mergerVars,
                   cliOptions, cursor, installedPlugins, startTree>>

\* Step 5: the installation order of the selected plugins.
ResolveOrder ==
    /\ pc = "resolve"
    /\ resolved' = Outcome(getInstallationOrder(pluginNames))
    /\ IF resolved'.state = "threw" THEN Exit(resolved'.error.kind)
       ELSE Goto("createClaudeDirectory")
    /\ UNCHANGED <<callVars, pluginDirVars, pluginNames, fs, runContext, mergerVars,
                   cliOptions, cursor, installedPlugins, startTree>>

\* A step that calls one Installer method and goes on unless it throws.
InstallerStep(step, result, next) ==
    /\ pc = step
    /\ fs' = result.fs
    /\ IF result.threw THEN Exit(result.error) ELSE Goto(next)
    /\ UNCHANGED <<callVars, pluginDirVars, resolverVars, runContext, mergerVars,
                   cliOptions, cursor, installedPlugins, startTree>>

\* Step 8
CreateClaudeDirectoryStep ==
    InstallerStep("createClaudeDirectory",
                  createClaudeDirectory(fs, [force |-> cliOptions.force, dryRun |-> FALSE]),
                  "installCore")

\* Step 9
InstallCoreStep ==
    InstallerStep("installCore", installCore(fs, runContext, DefaultOptions),
                  "installPlugins")

\* The end of one iteration of Step 10: the loop goes on with the next
\* plugin unless installPlugin threw.
PluginInstalled(pluginName, result) ==
    /\ fs' = result.fs
    /\ IF result.threw
       THEN Exit(result.error) /\ UNCHANGED <<cursor, installedPlugins>>
       ELSE /\ Goto("installPlugins")
            /\ cursor' = cursor + 1
            /\ installedPlugins' = Append(installedPlugins, pluginName)

\* Step 10, one iteration of the loop: a name without a manifest is reported
\* and skipped.
InstallNextPlugin ==
    /\ pc = "installPlugins"
    /\ cursor <= Len(resolved.order)
    /\ LET pluginName == resolved.order[cursor]
           plugin == getPlugin(pluginName)
       IN  IF plugin.threw
           THEN Exit(plugin.error.kind) /\ UNCHANGED <<fs, cursor, installedPlugins>>
           ELSE IF plugin.value.status = "absent"
           THEN /\ Goto("installPlugins")
                /\ cursor' = cursor + 1
                /\ UNCHANGED <<fs, installedPlugins>>
           ELSE PluginInstalled(pluginName,
                    installPlugin(fs, pluginName, runContext, DefaultOptions))
    /\ UNCHANGED <<callVars, pluginDirVars, resolverVars, runContext, mergerVars, cliOptions,
                   startTree>>

RECURSIVE loadFragments(_, _, _)
\* The loop of Step 11 over installOrder[i..]: the fragments loaded so far,
\* or the first error.
loadFragments(installOrder, i, loaded) ==
    IF i > Len(installOrder) THEN Return(loaded)
    ELSE LET fragment == loadSkillRulesFragment(installOrder[i])
         IN  IF fragment.threw THEN fragment
             ELSE loadFragments(installOrder, i + 1,
                                IF fragment.value.status = "valid"
                                THEN Append(loaded, fragment.value.skills)
                                ELSE loaded)

\* Step 11: the fragments of the plugins are loaded behind the empty base
\* fragment, merged, deduplicated, sorted and written.
MergeSkillRulesStep ==
    /\ pc = "installPlugins"
    /\ cursor > Len(resolved.order)
    /\ LET loaded == loadFragments(resolved.order, 1, <<<<>>>>)
           sortedSkillRules ==
               sortSkillsByPriority(deduplicateSkillRules(
                   mergeSkillRulesFragments(loaded.value, runContext)))
           result == createSkillRules(fs, sortedSkillRules, DefaultOptions)
       IN  IF loaded.threw
           THEN Exit(loaded.error.kind) /\ UNCHANGED <<fs, mergerVars>>
           ELSE /\ fragments' = loaded.value
                /\ mergedSkillRules' = sortedSkillRules
                /\ mergeWarnings' = validateMergedSkillRules(sortedSkillRules).warnings
                /\ fs' = result.fs
                /\ IF result.threw THEN Exit(result.error) ELSE Goto("createSettings")
    /\ UNCHANGED <<callVars, pluginDirVars, resolverVars, runContext, cliOptions, cursor,
                   installedPlugins, startTree>>

\* Step 12
CreateSettingsStep ==
    InstallerStep("createSettings", createSettings(fs, HooksConfig, DefaultOptions),
                  "createCLIConfig")

\* Step 13
CreateCLIConfigStep ==
    InstallerStep("createCLIConfig",
                  createCLIConfig(fs, [plugins |-> installedPlugins], DefaultOptions),
                  "installHookDependencies")

\* Step 14: a failure of npm install is caught and reported as a warning.
InstallHookDependenciesStep ==
    /\ pc = "installHookDependencies"
    /\ \E npmSucceeds \in BOOLEAN :
          fs' = installHookDependencies(fs, DefaultOptions, npmSucceeds).fs
    /\ Goto("updateGitignore")
    /\ UNCHANGED <<callVars, pluginDirVars, resolverVars, runContext, mergerVars,
                   cliOptions, cursor, installedPlugins, startTree>>

\* Step 15
UpdateGitignoreStep ==
    InstallerStep("updateGitignore", updateGitignore(fs, DefaultOptions), "verify")

\* Step 16
VerifyStep ==
    /\ pc = "verify"
    /\ IF verifyInstallation(fs).valid THEN Goto("done")
       ELSE Exit("Installation verification failed")
    /\ UNCHANGED <<callVars, pluginDirVars, resolverVars, fs, runContext, mergerVars,
                   cliOptions, cursor, installedPlugins, startTree>>

NextInit ==
    \/ CheckExisting
    \/ ResolveOrder
    \/ CreateClaudeDirectoryStep
    \/ InstallCoreStep
    \/ InstallNextPlugin
    \/ MergeSkillRulesStep
    \/ CreateSettingsStep
    \/ CreateCLIConfigStep
    \/ InstallHookDependenciesStep
    \/ UpdateGitignoreStep
    \/ VerifyStep

SpecInit == InitInit /\ [][NextInit]_vars

\* The plugins the request reaches that do not exist.
MissingPlugins == {p \in Requested : manifests[p].status = "absent"}

\* The plugins the resolution loads: no manifest among them is invalid.
ManifestsValid == \A p \in Requested : manifests[p].status # "invalid"

AfterResolution == pc \notin {"checkExisting", "resolve", "cancelled"} /\ resolved.state # "pending"

ValidationFailures == {"InvalidManifest", "InvalidFragment", "CircularDependency", "MissingPlugin"}

\* C4: a run that fails with a validation or resolution error has created or
\* changed nothing in the destination tree.
C4_FailuresBeforeWrites ==
    (pc = "exit" /\ failure \in ValidationFailures) => fs = startTree

\* C11: merging a fragment with itself and deduplicating gives what
\* deduplicating the fragment alone gives: the same skills in the same order,
\* each with the same scalars and the same trigger arrays.  (Under a context
\* the fragment is the substituted one.)
C11_SelfMergeIdempotent ==
    (pc = "deduplicated" /\ Len(fragments) = 2 /\ fragments[1] = fragments[2]) =>
        mergedSkillRules
            = deduplicateSkillRules(IF runContext # NoContext
                                    THEN replaceVariablesInObject(fragments[1], runContext)
                                    ELSE fragments[1])

\* Without a context, a fragment with both skills, one of them with path
\* exclusions and without path patterns, was merged with itself.
C11_Witness ==
    /\ pc = "deduplicated"
    /\ runContext = NoContext
    /\ Len(fragments) = 2 /\ fragments[1] = fragments[2]
    /\ keysOf(fragments[1]) = {"a", "constructor"}
    /\ valueOf(fragments[1], "a").fileTriggers.pathExclusions = Array(<<TextS>>)
    /\ ~valueOf(fragments[1], "a").fileTriggers.pathPatterns.defined
    /\ mergedSkillRules = deduplicateSkillRules(fragments[1])

(***************************************************************************)
(* SpecSorter: sortSkillsByPriority on every skills object within the     *)
(* bounds.  The names "1" and "2" match the skill-name pattern             *)
(* ^[a-z0-9-]+$; the priority "urgent" is one the sort does not know.      *)
(***************************************************************************)
MaxSkills == 3      \* most skills of a skills object

SortNames == {"a", "b", "1", "2"}

\* Rules of every priority, with and without triggers.
SortRules ==
    { SkillRule("guardrail", "block", "critical",
                PromptTriggers(Array(<<TextX>>), Undefined), NoFileTriggers),
      SkillRule("guardrail", "block", "high", NoPromptTriggers, NoFileTriggers),
      SkillRule("domain", "suggest", "medium", NoPromptTriggers,
                FileTriggers(Undefined, Array(<<TextS>>), Undefined)),
      SkillRule("domain", "warn", "low",
                PromptTriggers(Array(<<>>), Undefined), NoFileTriggers),
      SkillRule("guardrail", "block", "low", NoPromptTriggers,
                FileTriggers(Undefined, Undefined, Array(<<TextY>>))),
      SkillRule("domain", "suggest", "urgent",
                PromptTriggers(Undefined, Array(<<TextX>>)), NoFileTriggers) }

\* The skills objects: the properties are set in any order, and the object
\* enumerates them as JavaScript does.
SkillsObjects ==
    { rebuildFrom(<<>>, entries, 1) :
        entries \in { e \in SeqsUpTo({Entry(n, r) : n \in SortNames, r \in SortRules},
                                     MaxSkills) :
                        \A i, j \in 1..Len(e) : e[i].key = e[j].key => i = j } }

InitSorter ==
    /\ manifests = [p \in PluginNames |-> AbsentManifest]
    /\ fragmentFiles = NoFragmentFiles
    /\ NoCall
    /\ pluginNames = <<>>
    /\ resolved = Pending
    /\ fs = EmptyProject
    /\ runContext = NoContext
    /\ \E skills \in SkillsObjects :
          /\ fragments = <<skills>>
          /\ mergedSkillRules = skills
    /\ mergeWarnings = <<>>
    /\ pc = "deduplicated"
    /\ cliOptions = [force |-> FALSE, yes |-> FALSE]
    /\ cursor = 1
    /\ installedPlugins = <<>>
    /\ startTree = fs
    /\ failure = ""

NextSorter == SortByPriority \/ Validate

SpecSorter == InitSorter /\ [][NextSorter]_vars

\* The position of a skill in the enumeration of a skills object.
PositionOf(skills, skillName) == CHOOSE i \in 1..Len(skills) : skills[i].key = skillName

\* C12: sortSkillsByPriority returns the same skills with the same rules,
\* enumerated so that no skill comes before a skill of a more urgent priority
\* (critical, high, medium, low, then unknown), and so that skills of equal
\* priority keep the relative order they had in the input.
C12_SortedByPriority ==
    pc = "sorted" =>
        /\ Range(mergedSkillRules) = Range(fragments[1])
        /\ Len(mergedSkillRules) = Len(fragments[1])
        /\ \A i, j \in 1..Len(mergedSkillRules) :
              i < j =>
                 /\ priorityOrder(mergedSkillRules[i].value.priority)
                       <= priorityOrder(mergedSkillRules[j].value.priority)
                 /\ (mergedSkillRules[i].value.priority = mergedSkillRules[j].value.priority
                       => PositionOf(fragments[1], mergedSkillRules[i].key)
                            < PositionOf(fragments[1], mergedSkillRules[j].key))

\* The skills a "no trigger patterns" warning names.
WarnedSkills ==
    UNION {Range(mergeWarnings[i].skills) :
             i \in {j \in 1..Len(mergeWarnings) : mergeWarnings[j].kind = "no trigger patterns"}}

\* Step 11 of this run is over: the merged rules were validated and written.
AfterMerge ==
    pc \in {"createSettings", "createCLIConfig", "installHookDependencies",
            "updateGitignore", "verify", "done"}

\* The warnings did not stop the run: skill-rules.json holds the merged rules
\* and no error was raised.
WarningsNotFatal ==
    /\ failure = ""
    /\ fs[skillRulesPath].kind = "file"
    /\ fs[skillRulesPath].content = <<Json(mergedSkillRules)>>

\* C13 as claimed: the validation warns about a skill exactly when all five
\* trigger arrays of the merged skill (pathExclusions among them) are empty or
\* absent, and the run writes the merged rules all the same.
C13_WarnsWhenAllFiveEmpty ==
    AfterMerge =>
        /\ \A skillName \in keysOf(mergedSkillRules) :
              skillName \in WarnedSkills
                 <=> \A field \in TriggerArrays :
                        LengthOf(TriggerArray(valueOf(mergedSkillRules, skillName), field)) = 0
        /\ WarningsNotFatal

\* C13 as amended: the validation warns about a skill exactly when its
\* keywords, intentPatterns, pathPatterns and contentPatterns are all empty or
\* absent; pathExclusions is not looked at, so a skill that has path
\* exclusions only is warned about too.  The warnings are not fatal: the run
\* writes the merged rules and goes on.
C13_WarnsWhenNoTrigger ==
    AfterMerge =>
        /\ \A skillName \in keysOf(mergedSkillRules) :
              skillName \in WarnedSkills
                 <=> \A field \in TriggerArrays \ {"pathExclusions"} :
                        LengthOf(TriggerArray(valueOf(mergedSkillRules, skillName), field)) = 0
        /\ WarnedSkills \subseteq keysOf(mergedSkillRules)
        /\ WarningsNotFatal

\* The run ended well although it warned about q (no trigger at all), e (path
\* exclusions only) and k (an empty keyword list), and not about a and g.
C13_Witness ==
    /\ pc = "done"
    /\ WarnedSkills = {"q", "e", "k"}
    /\ keysOf(mergedSkillRules) = {"a", "q", "e", "k", "g"}
    /\ WarningsNotFatal

(***************************************************************************)
(* SpecSettings: one call of Merger.deepMerge, on a value and a             *)
(* structurally identical copy of it, or of Merger.mergeSettings, on a base *)
(* tree and two override trees.                                             *)
(***************************************************************************)
MaxItems == 2       \* longest array of a value handed to deepMerge

\* What an array may hold: scalars and objects.
Elements ==
    { Scalar("x"), Scalar("y"), ObjectAt(<<>>, <<>>),
      ObjectAt(<<>>, <<Entry("k", Scalar("x"))>>) }

Arrays == {ArrayAt(<<>>, items) : items \in SeqsUpTo(Elements, MaxItems)}

JsonValues ==
    Elements \cup Arrays
    \cup {ObjectAt(<<>>, <<Entry("k", value)>>) : value \in Elements \cup Arrays}

\* What the key "k" of a settings tree may hold.
SettingsValues ==
    { Scalar("x"), ArrayAt(<<>>, <<Scalar("x")>>), ArrayAt(<<>>, <<Scalar("y")>>),
      ObjectAt(<<>>, <<>>),
      ObjectAt(<<>>, <<Entry("m", ArrayAt(<<>>, <<Scalar("x")>>))>>) }

SettingsTrees ==
    {ObjectAt(<<>>, <<>>)}
    \cup {ObjectAt(<<>>, <<Entry("k", value)>>) : value \in SettingsValues}

Root(name) == <<[tree |-> name]>>

JsonObjects == {value \in JsonValues : isPlainObject(value)}

\* A value and a copy of it, or the empty object and an object.
DeepMergeCalls ==
    { [target |-> At(value, Root("target")), source |-> At(value, Root("source"))] :
        value \in JsonValues }
    \cup { [target |-> At(ObjectAt(<<>>, <<>>), Root("target")),
            source |-> At(value, Root("source"))] : value \in JsonObjects }

\* A base tree and two overrides, or the empty object and one override.
MergeSettingsCalls ==
    { [base |-> At(a, Root("a")),
       overrides |-> <<At(b, Root("b")), At(c, Root("c"))>>] :
        a \in SettingsTrees, b \in SettingsTrees, c \in SettingsTrees }
    \cup { [base |-> At(ObjectAt(<<>>, <<>>), Root("a")),
            overrides |-> <<At(value, Root("b"))>>] : value \in JsonObjects }

MaxCalls == 2       \* how often mergeHooks is called on the same arguments

\* What a hook type of a hooks object may hold: a list of hook configs, one
\* config that is not in a list, an empty value.
HooksValues ==
    { ArrayAt(<<>>, <<>>), ArrayAt(<<>>, <<Scalar("x")>>), Scalar("x"), Scalar("") }

HooksObjects ==
    {ObjectAt(<<>>, <<>>)}
    \cup {ObjectAt(<<>>, <<Entry("k", value)>>) : value \in HooksValues}
    \cup {ObjectAt(<<>>, <<Entry("k", ArrayAt(<<>>, <<Scalar("x")>>)),
                           Entry("m", ArrayAt(<<>>, <<Scalar("y")>>))>>)}

MergeHooksCalls ==
    { [baseHooks |-> At(a, Root("a")), pluginHooks |-> <<At(b, Root("b"))>>] :
        a \in HooksObjects, b \in HooksObjects }
    \cup { [baseHooks |-> At(a, Root("a")),
            pluginHooks |-> <<At(b, Root("b")), At(b, Root("c"))>>] :
            a \in HooksObjects, b \in HooksObjects }

InitSettings ==
    /\ manifests = [p \in PluginNames |-> AbsentManifest]
    /\ fragmentFiles = NoFragmentFiles
    /\ pluginNames = <<>>
    /\ resolved = Pending
    /\ fs = EmptyProject
    /\ runContext = NoContext
    /\ NoMerge
    /\ NoRun
    /\ arguments \in DeepMergeCalls \cup MergeSettingsCalls \cup MergeHooksCalls
    /\ returned = <<>>
    /\ lastIndex = 0

Returns(result) ==
    /\ returned = <<>>
    /\ returned' = <<result>>
    /\ UNCHANGED <<pluginDirVars, resolverVars, fs, runContext, mergerVars, runVars,
                   arguments, lastIndex>>

DeepMerge ==
    /\ "target" \in DOMAIN arguments
    /\ Returns(deepMerge(arguments.target, arguments.source))

MergeSettings ==
    /\ "base" \in DOMAIN arguments
    /\ Returns(mergeSettings(arguments.base, arguments.overrides))

\* mergeHooks on the same two arguments, up to MaxCalls times; arguments
\* holds the argument objects as they are after the call.
MergeHooks ==
    /\ "baseHooks" \in DOMAIN arguments
    /\ Len(returned) < MaxCalls
    /\ LET result == mergeHooks(arguments.baseHooks, arguments.pluginHooks)
       IN  /\ returned' = Append(returned, result.merged)
           /\ arguments' = [arguments EXCEPT !.baseHooks = result.baseHooks]
    /\ UNCHANGED <<pluginDirVars, resolverVars, fs, runContext, mergerVars, runVars,
                   lastIndex>>

NextSettings == DeepMerge \/ MergeSettings \/ MergeHooks

SpecSettings == InitSettings /\ [][NextSettings]_vars

\* C14: deep-merging a JSON-like value with a structurally identical copy of it
\* yields a value equal to it, arrays whose elements are objects included.
C14_DeepMergeIdempotent ==
    (/\ "target" \in DOMAIN arguments
     /\ returned # <<>>
     /\ Structure(arguments.source) = Structure(arguments.target))
        => Structure(returned[1]) = Structure(arguments.target)

RECURSIVE NoScalarConflict(_, _)
\* No key, at any depth, holds a scalar in one tree and something else in the
\* other.
NoScalarConflict(a, b) ==
    IF "scalar" \in DOMAIN a \/ "scalar" \in DOMAIN b THEN a = b
    ELSE IF isPlainObject(a) /\ isPlainObject(b)
    THEN \A key \in keysOf(a.entries) \cap keysOf(b.entries) :
            NoScalarConflict(valueOf(a.entries, key), valueOf(b.entries, key))
    ELSE TRUE

\* C15: for object/array trees a, b, c without scalar conflicts,
\* merge(merge(a, b), c) equals merge(a, merge(b, c)), also when a key holds an
\* object in one tree and an array in another.
C15_DeepMergeAssociative ==
    ("base" \in DOMAIN arguments /\ returned # <<>> /\ Len(arguments.overrides) = 2) =>
        LET a == arguments.base
            b == arguments.overrides[1]
            c == arguments.overrides[2]
        IN  (/\ NoScalarConflict(Structure(a), Structure(b))
             /\ NoScalarConflict(Structure(a), Structure(c))
             /\ NoScalarConflict(Structure(b), Structure(c)))
            => Structure(returned[1])
                 = Structure(mergeSettings(a, <<mergeSettings(b, <<c>>)>>))

(***************************************************************************)
(* SpecTemplate: TemplateEngine.replaceVariables on a text and a context,   *)
(* then TemplateEngine.extractVariables on the result.                      *)
(***************************************************************************)
MaxTokens == 3      \* most tokens a template text is put together from

\* The pieces of a template text: placeholders, brace pairs, plain text.
Tokens ==
    { <<"{", "{", "A", "}", "}">>, <<"{", "{", "B", "}", "}">>,
      <<"{", "{">>, <<"}", "}">>, <<"x">> }

RECURSIVE Concat(_)
Concat(pieces) == IF pieces = <<>> THEN <<>> ELSE Head(pieces) \o Concat(Tail(pieces))

TemplateTexts == {Concat(pieces) : pieces \in SeqsUpTo(Tokens, MaxTokens)}

TemplateContexts ==
    { NoContext,
      (<<"A">> :> Str(<<"s">>)),
      (<<"A">> :> Str(<<"A">>)),
      (<<"B">> :> [type |-> "object"]),
      (<<"A">> :> Str(<<"{", "{", "A", "}", "}">>)),
      (<<"A">> :> Str(<<"{", "{", "B", "}", "}">>)) @@ (<<"B">> :> Str(<<"x">>)) }

MaxLayers == 2      \* most contexts merged, most pairs of one createContext

\* The keys a caller writes a variable with: FRONTEND_DIR-like, in lower
\* case, with a dash, with a leading digit.
ContextKeys ==
    { <<"A">>, <<"a">>, <<"A", "_">>, <<"a", "_">>, <<"a", "-">>, <<"1">> }

ContextValues == {Str(<<"s">>), Str(<<"x">>)}

\* Object.entries of the pairs handed to createContext: no key twice.
PairsObjects ==
    { pairs \in SeqsUpTo([key : ContextKeys, value : ContextValues], MaxLayers) :
        \A i, j \in 1..Len(pairs) : pairs[i].key = pairs[j].key => i = j }

\* The layers handed to mergeContexts: contexts as callers build them and
\* contexts made by createContext.
ContextLayers ==
    { (key :> value) : key \in ContextKeys, value \in ContextValues }
      \cup { createContext(pairs) : pairs \in PairsObjects }

TemplateCalls ==
    [text : TemplateTexts]
      \cup [pairs : PairsObjects]
      \cup [contexts : SeqsUpTo(ContextLayers, MaxLayers)]

InitTemplate ==
    /\ manifests = [p \in PluginNames |-> AbsentManifest]
    /\ fragmentFiles = NoFragmentFiles
    /\ pluginNames = <<>>
    /\ resolved = Pending
    /\ fs = EmptyProject
    /\ runContext \in TemplateContexts
    /\ NoMerge
    /\ NoRun
    /\ arguments \in TemplateCalls
    /\ "text" \notin DOMAIN arguments => runContext = NoContext
    /\ returned = <<>>
    /\ lastIndex = 0

ReplaceVariables ==
    /\ "text" \in DOMAIN arguments
    /\ returned = <<>>
    /\ returned' = <<replaceVariables(arguments.text, runContext)>>
    /\ lastIndex' = 0
    /\ UNCHANGED <<pluginDirVars, resolverVars, fs, runContext, mergerVars, runVars,
                   arguments>>

ExtractVariables ==
    /\ "text" \in DOMAIN arguments
    /\ Len(returned) = 1
    /\ returned' = Append(returned, extractVariables(returned[1]))
    /\ UNCHANGED <<pluginDirVars, resolverVars, fs, runContext, mergerVars, runVars,
                   arguments, lastIndex>>

CreateContext ==
    /\ "pairs" \in DOMAIN arguments
    /\ Returns(createContext(arguments.pairs))

MergeContexts ==
    /\ "contexts" \in DOMAIN arguments
    /\ Returns(mergeContexts(arguments.contexts))

NextTemplate ==
    ReplaceVariables \/ ExtractVariables \/ CreateContext \/ MergeContexts

SpecTemplate == InitTemplate /\ [][NextTemplate]_vars

\* C16: the variables extracted from a text after replacement hold no key of
\* the context, whatever the substituted values and however the placeholders
\* are nested in braces.
C16_NoContextKeyRemains ==
    ("text" \in DOMAIN arguments /\ Len(returned) = 2)
        => Range(returned[2]) \cap DOMAIN runContext = {}

(***************************************************************************)
(* SpecValidator: one call of PluginValidator.validateManifest.             *)
(***************************************************************************)
ManifestDocuments ==
    [ name : {"a", "A"},
      version : {"1.0.0", "1"},
      author : {"n <e@x>", "n", ""},
      compatibility : [claudeCode : {">=1.0.0", "*", "latest"},
                       node : {">=1.0.0", "latest"}] ]

InitValidator ==
    /\ manifests = [p \in PluginNames |-> AbsentManifest]
    /\ fragmentFiles = NoFragmentFiles
    /\ pluginNames = <<>>
    /\ resolved = Pending
    /\ fs = EmptyProject
    /\ runContext = NoContext
    /\ NoMerge
    /\ NoRun
    /\ arguments \in [manifest : ManifestDocuments]
    /\ returned = <<>>
    /\ lastIndex = 0

ValidateManifest ==
    /\ "manifest" \in DOMAIN arguments
    /\ Returns(validateManifest(arguments.manifest))

NextValidator == ValidateManifest

SpecValidator == InitValidator /\ [][NextValidator]_vars

\* The paths the errors of a validation result name.
ErrorPaths(result) == {result.errors[i].path : i \in 1..Len(result.errors)}

\* C17: a manifest with a schema violation and an invalid semver range in
\* compatibility.claudeCode or compatibility.node gets an error for each of
\* them from validateManifest.
C17_EveryViolationReported ==
    ("manifest" \in DOMAIN arguments /\ returned # <<>>) =>
        LET manifest == arguments.manifest
        IN  validatePluginManifest(manifest) # <<>> =>
              /\ ~isValidVersionRange(manifest.compatibility.claudeCode)
                    => "/compatibility/claudeCode" \in ErrorPaths(returned[1])
              /\ ~isValidVersionRange(manifest.compatibility.node)
                    => "/compatibility/node" \in ErrorPaths(returned[1])

\* C18: a failed init run (a step threw or the verification reported errors)
\* has not written the installation-state file .claude-code-cli.json.
C18_StateFileOnlyOnSuccess ==
    (pc = "exit" /\ failure # "") => fs[configPath] = startTree[configPath]

(***************************************************************************)
(* SpecGitignore: Installer.updateGitignore, any number of times, on a      *)
(* project with any .gitignore or none.                                     *)
(***************************************************************************)
MaxLines == 3       \* longest .gitignore a project starts with

\* What a .gitignore is put together from: a line, a line break, the marker
\* line, a byte that is not UTF-8.
GitignoreBytes == {"o", "\n", "# Claude Code", "0xFF"}

GitignoreTrees ==
    {EmptyProject}
    \cup {[EmptyProject EXCEPT ![gitignorePath] = File(content, FileMode)] :
            content \in SeqsUpTo(GitignoreBytes, MaxLines)}

InitGitignore ==
    /\ manifests = [p \in PluginNames |-> AbsentManifest]
    /\ fragmentFiles = NoFragmentFiles
    /\ NoCall
    /\ pluginNames = <<>>
    /\ resolved = Pending
    /\ fs \in GitignoreTrees
    /\ runContext = NoContext
    /\ NoMerge
    /\ NoRun

NextGitignore == UpdateGitignore

SpecGitignore == InitGitignore /\ [][NextGitignore]_vars

Write == [force |-> FALSE, dryRun |-> FALSE]

\* How often the block of ignore entries occurs in a file content.
BlockCount(content) ==
    Cardinality({i \in 1..Len(content) :
        /\ i + Len(gitignoreEntries) - 1 <= Len(content)
        /\ SubSeq(content, i, i + Len(gitignoreEntries) - 1) = gitignoreEntries})

GitignoreIdempotent ==
    LET once == updateGitignore(fs, Write).fs
    IN  updateGitignore(once, Write).fs = once

GitignorePrefixKept == IsPrefix(startTree[gitignorePath].content, fs[gitignorePath].content)

GitignoreBlockOnce == BlockCount(fs[gitignorePath].content) <= 1

GitignoreNoOpOnMarker ==
    "# Claude Code" \in Range(fs[gitignorePath].content)
        => updateGitignore(fs, Write).fs = fs

\* C19: whatever .gitignore a project starts with, running updateGitignore
\* once or more often yields the same content, keeps the previous content as a
\* prefix, holds the block of entries at most once, and changes nothing when
\* the marker is present.
C19_GitignoreAppendOnly ==
    /\ GitignoreIdempotent
    /\ GitignorePrefixKept
    /\ GitignoreBlockOnce
    /\ GitignoreNoOpOnMarker

EssentialsPresent ==
    /\ pathExists(fs, claudeDir)
    /\ \A i \in 1..Len(essentialFiles) : pathExists(fs, join(claudeDir, essentialFiles[i]))

CopyErrors == {"EEXIST", "EISDIR"}

\* C21: a filesystem error while one file is copied does not abort the run:
\* no init run ends on such an error, the remaining plugins of the install
\* order are still processed.
C21_CopyErrorNotFatal == ~(pc = "exit" /\ failure \in CopyErrors)

\* uniqueItems by value: the first occurrence of each structurally equal item.
DedupByValue(items) == uniqueItems([i \in 1..Len(items) |-> Structure(items[i])])

\* C22: the deep merge of two sequences is their concatenation de-duplicated
\* by value equality in first-occurrence order; no two elements of the result
\* are equal by value, objects and arrays included.
C22_SequencesDedupByValue ==
    (/\ "target" \in DOMAIN arguments
     /\ returned # <<>>
     /\ isArray(arguments.target) /\ isArray(arguments.source))
        => LET items == Structure(returned[1]).items
           IN  /\ NoDuplicates(items)
               /\ items = DedupByValue(arguments.target.items \o arguments.source.items)

\* C23: the empty object is a left identity of deep merge: deepMerge({}, x)
\* and mergeSettings({}, [x]) equal x for every JSON-like object x, objects
\* holding arrays with repeated elements included.
C23_EmptyObjectLeftIdentity ==
    /\ (/\ "target" \in DOMAIN arguments
        /\ returned # <<>>
        /\ isPlainObject(arguments.target) /\ isPlainObject(arguments.source)
        /\ arguments.target.entries = <<>>)
          => Structure(returned[1]) = Structure(arguments.source)
    /\ (/\ "base" \in DOMAIN arguments
        /\ returned # <<>>
        /\ Len(arguments.overrides) = 1)
          => Structure(returned[1]) = Structure(arguments.overrides[1])

(***************************************************************************)
(* C24: what replaceVariables does to a text, stated on the placeholders    *)
(* of the text rather than on the scan.                                     *)
(***************************************************************************)
\* text reads {{NAME}} from index i to index j, NAME matching [A-Z_][A-Z0-9_]*.
IsPlaceholder(text, i, j) ==
    /\ i + 4 <= j /\ j <= Len(text)
    /\ text[i] = "{" /\ text[i + 1] = "{"
    /\ text[j - 1] = "}" /\ text[j] = "}"
    /\ IsNameStart(text[i + 2])
    /\ \A k \in (i + 3)..(j - 2) : IsNameChar(text[k])

Placeholders(text) ==
    {<<i, j>> \in (1..Len(text)) \X (1..Len(text)) : IsPlaceholder(text, i, j)}

PlaceholderName(text, placeholder) ==
    SubSeq(text, placeholder[1] + 2, placeholder[2] - 2)

\* What index k of the text contributes to the result: the stringified value
\* where a placeholder of a context key starts, nothing inside it, and its
\* own character anywhere else.
Contribution(text, context, k) ==
    LET known == {pl \in Placeholders(text) :
                     PlaceholderName(text, pl) \in DOMAIN context}
    IN  IF \E pl \in known : pl[1] = k
        THEN String(context[PlaceholderName(text,
                                CHOOSE pl \in known : pl[1] = k)])
        ELSE IF \E pl \in known : pl[1] < k /\ k <= pl[2]
        THEN <<>>
        ELSE <<text[k]>>

Substituted(text, context) ==
    Concat([k \in 1..Len(text) |-> Contribution(text, context, k)])

\* C24: replaceVariables replaces every {{NAME}} whose NAME is a context key
\* by the stringified value, leaves every other placeholder and all other
\* text as it was, and returns the input itself when it holds no placeholder
\* of a context key.
C24_ReplacesExactlyKnownNames ==
    ("text" \in DOMAIN arguments /\ returned # <<>>)
        => /\ returned[1] = Substituted(arguments.text, runContext)
           /\ (\A pl \in Placeholders(arguments.text) :
                   PlaceholderName(arguments.text, pl) \notin DOMAIN runContext)
                 => returned[1] = arguments.text

\* A text with a placeholder of a context key twice and a placeholder of an
\* absent name has been replaced.
C24_Witness ==
    /\ "text" \in DOMAIN arguments
    /\ returned # <<>>
    /\ arguments.text = Concat(<< <<"{", "{", "A", "}", "}">>,
                                 <<"{", "{", "B", "}", "}">>,
                                 <<"{", "{", "A", "}", "}">> >>)
    /\ runContext = (<<"A">> :> Str(<<"s">>))
    /\ returned[1] = <<"s", "{", "{", "B", "}", "}", "s">>

\* C25: a manifest that satisfies the schema and whose two compatibility
\* ranges are valid is accepted by validateManifest (valid is true, so
\* loadManifest does not throw), also when its author holds neither '<' nor
\* '@'.
C25_AuthorFormatNotFatal ==
    ("manifest" \in DOMAIN arguments /\ returned # <<>>) =>
        LET manifest == arguments.manifest
        IN  (/\ validatePluginManifest(manifest) = <<>>
             /\ isValidVersionRange(manifest.compatibility.claudeCode)
             /\ isValidVersionRange(manifest.compatibility.node))
                => returned[1].valid

(***************************************************************************)
(* C26: the keys and values of a context made by createContext and of a    *)
(* context merged from layers by mergeContexts.                            *)
(***************************************************************************)
\* key matches ^[A-Z_][A-Z0-9_]*$
IsVariableName(key) ==
    /\ key # <<>>
    /\ IsNameStart(key[1])
    /\ \A i \in 2..Len(key) : IsNameChar(key[i])

\* The layers of a call as lists of entries: the pairs of createContext one
\* layer each, the contexts of mergeContexts one layer each.
LayersOf(call) ==
    IF "pairs" \in DOMAIN call
    THEN [i \in 1..Len(call.pairs) |-> (call.pairs[i].key :> call.pairs[i].value)]
    ELSE call.contexts

\* The value the last layer supplying variable name (in any casing) gives it.
LastSupplied(layers, name) ==
    LET supplying == {i \in 1..Len(layers) :
                         \E key \in DOMAIN layers[i] : normalizedKey(key) = name}
        last == CHOOSE i \in supplying : \A j \in supplying : j <= i
        key == CHOOSE k \in DOMAIN layers[last] : normalizedKey(k) = name
    IN  layers[last][key]

\* C26: the context holds, for every variable a layer supplies in any
\* casing, the value of the last layer supplying it under the upper-snake
\* name, and every key of the context matches [A-Z_][A-Z0-9_]*.
C26_LayeredNormalizedOverlay ==
    (("pairs" \in DOMAIN arguments \/ "contexts" \in DOMAIN arguments)
       /\ returned # <<>>)
        => LET layers == LayersOf(arguments)
               context == returned[1]
           IN  /\ \A key \in DOMAIN context : IsVariableName(key)
               /\ \A i \in 1..Len(layers) : \A key \in DOMAIN layers[i] :
                     /\ normalizedKey(key) \in DOMAIN context
                     /\ context[normalizedKey(key)]
                          = LastSupplied(layers, normalizedKey(key))

(***************************************************************************)
(* SpecQueries: the TemplateEngine functions called one after another, in  *)
(* any order and on any texts; they share the one VARIABLE_PATTERN.        *)
(***************************************************************************)
\* The texts and contexts the queries are called on.
QueryTexts == {Concat(pieces) : pieces \in SeqsUpTo(Tokens, MaxTokens - 1)}

QueryContexts == {NoContext, (<<"A">> :> Str(<<"s">>))}

InitQueries ==
    /\ manifests = [p \in PluginNames |-> AbsentManifest]
    /\ fragmentFiles = NoFragmentFiles
    /\ pluginNames = <<>>
    /\ resolved = Pending
    /\ fs = EmptyProject
    /\ runContext = NoContext
    /\ NoMerge
    /\ NoRun
    /\ NoCall

Called(query, text, context, result, index) ==
    /\ arguments' = [query |-> query, text |-> text, context |-> context]
    /\ returned' = <<result>>
    /\ lastIndex' = index
    /\ UNCHANGED <<pluginDirVars, resolverVars, fs, runContext, mergerVars, runVars>>

CallHasVariables ==
    \E text \in QueryTexts :
        Called("hasVariables", text, NoContext,
               hasVariables(text).value, hasVariables(text).lastIndex)

CallExtractVariables ==
    \E text \in QueryTexts :
        Called("extractVariables", text, NoContext, extractVariables(text), lastIndex)

CallValidateContext ==
    \E text \in QueryTexts, context \in QueryContexts :
        Called("validateContext", text, context,
               validateContext(text, context), lastIndex)

\* text.replace with the global pattern starts at 0 and leaves lastIndex 0.
CallReplaceVariables ==
    \E text \in QueryTexts, context \in QueryContexts :
        Called("replaceVariables", text, context,
               replaceVariables(text, context), 0)

NextQueries ==
    \/ CallHasVariables
    \/ CallExtractVariables
    \/ CallValidateContext
    \/ CallReplaceVariables

SpecQueries == InitQueries /\ [][NextQueries]_vars

PlaceholderNames(text) ==
    {PlaceholderName(text, pl) : pl \in Placeholders(text)}

\* C27: whatever calls came before, hasVariables(text) is true exactly when
\* text holds a placeholder, extractVariables(text) returns exactly the
\* placeholder names of text, and validateContext(text, context) reports
\* exactly those of them that context lacks.
C27_QueriesIgnoreEarlierCalls ==
    "query" \in DOMAIN arguments =>
        LET names == PlaceholderNames(arguments.text)
        IN  /\ arguments.query = "hasVariables"
                 => returned[1] = (names # {})
            /\ arguments.query = "extractVariables"
                 => Range(returned[1]) = names
            /\ arguments.query = "validateContext"
                 => /\ Range(returned[1].missing) = names \ DOMAIN arguments.context
                    /\ returned[1].valid = (names \subseteq DOMAIN arguments.context)

\* C28: whenever getInstallationOrder returns, the returned list names no
\* plugin twice, and the names in it are exactly the requested plugins and
\* everything reachable from them by dependency edges.
C28_OrderIsExactlyTheClosure ==
    resolved.state = "returned" =>
        /\ NoDuplicates(resolved.order)
        /\ Range(resolved.order) = Requested

\* Two plugins were requested, one of which is also a dependency of the
\* other, and a third plugin was pulled in as a dependency of both.
C28_Witness ==
    /\ resolved.state = "returned"
    /\ Len(pluginNames) = 2
    /\ pluginNames[1] \in DirectDeps(pluginNames[2])
    /\ \E d \in PluginNames \ Range(pluginNames) :
          d \in DirectDeps(pluginNames[1]) \cap DirectDeps(pluginNames[2])
    /\ Len(resolved.order) = 3

\* The user was asked whether to overwrite and said yes: .claude existed,
\* neither --force nor --yes was given, and the run went on after step 1.
OverwriteConfirmed ==
    /\ pathExists(startTree, claudeDir)
    /\ ~cliOptions.force /\ ~cliOptions.yes
    /\ pc \notin {"checkExisting", "cancelled"}

\* C29: an init run on an existing .claude without --force, in which the
\* user confirmed the overwrite prompt, does not end with the
\* '.claude directory already exists' error: it goes past the creation of
\* the directories.
C29_ConfirmedOverwriteProceeds ==
    OverwriteConfirmed =>
        ~(/\ pc = "exit"
          /\ failure = ".claude directory already exists. Use --force to overwrite.")

\* C30: a call of deepMerge, mergeSettings or mergeHooks leaves every
\* argument as it was (the arrays under the keys of baseHooks included), and
\* a repeated call of mergeHooks returns a result equal to the first.
C30_MergeLeavesInputs ==
    [][/\ arguments' = arguments
       /\ returned # <<>>
            => Structure(returned'[Len(returned')]) = Structure(returned[1])]_vars


====
